---- MODULE Spec2Model ----
(***************************************************************************)
(* The motion core of MarlinKimbra: the planner's block ring               *)
(* (module/motion/planner.cpp) and the stepper interrupt                   *)
(* (module/motion/stepper.cpp).                                            *)
(*                                                                         *)
(* Two contexts are modelled.  The producer (main loop) executes one       *)
(* planner/stepper API call at a time, broken into steps at every point    *)
(* where it reads state the interrupt writes or writes state the interrupt *)
(* reads.  The consumer is ISR(TIMER1_COMPA_vect): one atomic action per   *)
(* timer tick, enabled only while the timer interrupt is enabled and the   *)
(* producer is not inside a CRITICAL_SECTION.                              *)
(*                                                                         *)
(* Configuration modelled: cartesian mechanics, one extruder (two in the   *)
(* scenario of the extruder change), LASER,                                *)
(* ADVANCE, SLOWDOWN, XY_FREQUENCY_LIMIT, Z_LATE_ENABLE and                *)
(* AUTO_BED_LEVELING_FEATURE disabled.  The endstops fitted are part of the *)
(* scenario; their pin levels are free at every tick.                      *)
(*                                                                         *)
(* Floating point quantities are held as integers: lengths in 1/100 mm,    *)
(* speeds in 1/100 mm/s, accelerations in mm/s^2; sqrt is the integer      *)
(* floor square root.  Step counts, step rates and timer values are the    *)
(* program's integers.                                                     *)
(***************************************************************************)
EXTENDS Integers, Sequences, FiniteSets, TLC

----------------------------------------------------------------------------
(* Bounds of the model *)

\* log2 of the ring capacity explored (the firmware's BLOCK_BUFFER_SIZE is a power of two)
BlockBufferBits == 2

\* number of producer API calls explored in one behaviour
MaxCalls == 4

\* value quickStop loads into cleaning_buffer_counter (5000 in the firmware), scaled down
CleaningTicks == 2

\* largest step_event_count of the blocks the step loop is traced on
MaxSteps == 4

\* log2 of the ring capacity the lookahead is run on as a whole
LookaheadBits == 3

----------------------------------------------------------------------------
(* Program constants *)

BLOCK_BUFFER_SIZE == 2^BlockBufferBits

DROP_SEGMENTS == 1

MAX_STEP_FREQUENCY == 40000

DOUBLE_STEP_FREQUENCY == 10000

\* F_CPU / 500000 for the 16 MHz part
MIN_STEP_RATE == 32

\* F_CPU / 8
TIMER_RATE == 2000000

\* MINIMUM_PLANNER_SPEED, 0.05 mm/s, in 1/100 mm/s
MINIMUM_PLANNER_SPEED == 5

\* the floor calculate_trapezoid_for_block puts under initial_rate and final_rate
MIN_RATE == 120

X_AXIS == 1
Y_AXIS == 2
Z_AXIS == 3
E_AXIS == 4
NUM_AXIS == 4
Axes == 1..NUM_AXIS

NULL == -1

Slots == 0..(BLOCK_BUFFER_SIZE - 1)

----------------------------------------------------------------------------
(* Arithmetic helpers *)

Abs(x) == IF x < 0 THEN -x ELSE x
Min(a, b) == IF a < b THEN a ELSE b
Max(a, b) == IF a > b THEN a ELSE b

\* floor and ceiling of n/d for d > 0 and any integer n
FloorDiv(n, d) == n \div d
CeilDiv(n, d) == -((-n) \div d)
\* C conversion of a float to an integer type: truncation toward zero
TruncDiv(n, d) == IF n >= 0 THEN n \div d ELSE -((-n) \div d)
\* lround of n/d (half away from zero)
RoundDiv(n, d) == IF n >= 0 THEN (2 * n + d) \div (2 * d) ELSE -((2 * (-n) + d) \div (2 * d))

RECURSIVE ISqrtBin(_, _, _)
ISqrtBin(n, lo, hi) ==
  IF hi - lo <= 1 THEN lo
  ELSE LET mid == (lo + hi) \div 2
       IN  IF mid * mid <= n THEN ISqrtBin(n, mid, hi) ELSE ISqrtBin(n, lo, mid)
\* floor(sqrt(n)) for 0 <= n < 2^31
ISqrt(n) == IF n <= 0 THEN 0 ELSE ISqrtBin(n, 0, Min(n + 1, 46341))

----------------------------------------------------------------------------
(* Ring index arithmetic, planner.cpp / planner.h *)

\* BLOCK_MOD(n): n & (BLOCK_BUFFER_SIZE - 1)
BLOCK_MOD(n) == n % BLOCK_BUFFER_SIZE

\* fault: an index that skips a slot
next_block_index_skip(i) == BLOCK_MOD(i + 2)

next_block_index(i) == BLOCK_MOD(i + 1)
prev_block_index(i) == BLOCK_MOD(i - 1)

----------------------------------------------------------------------------
(* State *)

VARIABLES
  \* planner.cpp
  block_buffer,             \* block_t block_buffer[BLOCK_BUFFER_SIZE]
  block_buffer_head,        \* index of the next block to be pushed
  block_buffer_tail,        \* index of the block to process now
  position,                 \* long position[NUM_AXIS], in steps
  previous_speed,           \* float previous_speed[NUM_AXIS], 1/100 mm/s
  previous_nominal_speed,   \* 1/100 mm/s
  last_extruder,            \* uint8_t last_extruder
  \* stepper.cpp
  current_block,            \* slot index of the latched block, or NULL
  counter,                  \* counter_x, counter_y, counter_z, counter_e
  step_events_completed,
  out_bits,                 \* set of axes whose direction bit is set
  count_direction,
  count_position,
  step_loops,
  step_loops_nominal,
  acc_step_rate,
  acceleration_time,
  deceleration_time,
  OCR1A_nominal,
  OCR1A,
  cleaning_buffer_counter,
  check_endstops,           \* update_endstops() is called by the handler
  old_endstop_bits,         \* the endstops sampled active by the previous poll
  endstop_hit_bits,         \* set of axes whose endstop has triggered
  endstops_trigsteps,       \* count_position of X, Y, Z at the trigger
  stepper_irq,              \* TIMSK1.OCIE1A: the stepper driver interrupt is enabled
  critical,                 \* the producer is inside CRITICAL_SECTION_START .. END
  \* the producer context
  prod,                     \* the API call in progress, its position and its locals
  ncalls,                   \* API calls started so far
  scn,                      \* the inputs the environment draws from
  \* observation
  pending,                  \* blocks appended and not yet discarded
  initial_position,         \* position[] when the behaviour starts
  retired,                  \* steps[] of the blocks retired so far, summed per axis
  op,                       \* the function that took the last step
  tick                      \* what the last stepper tick did

planner_vars == <<block_buffer, block_buffer_head, block_buffer_tail, position,
                  previous_speed, previous_nominal_speed, last_extruder>>
stepper_vars == <<current_block, counter, step_events_completed, out_bits,
                  count_direction, count_position, step_loops, step_loops_nominal,
                  acc_step_rate, acceleration_time, deceleration_time, OCR1A_nominal,
                  OCR1A, cleaning_buffer_counter>>
endstop_vars == <<check_endstops, old_endstop_bits, endstop_hit_bits, endstops_trigsteps>>
ledger == <<initial_position, retired>>
vars == <<planner_vars, stepper_vars, endstop_vars, stepper_irq, critical, prod, ncalls, scn,
          pending, ledger, op, tick>>

\* The groups of block fields plan_buffer_line fills in, in program order:
\*   "basic"  busy, steps, step_event_count               (planner.cpp 583-607)
\*   "rates"  direction_bits, nominal_rate,
\*            acceleration_rate, speeds and flags         (planner.cpp 633-1133)
\*   "trap"   accelerate_until, decelerate_after,
\*            initial_rate, final_rate                    (planner.cpp 187-190)
FieldGroups == {"basic", "rates", "trap"}

\* A zero-initialised block_t; `written' records which field groups the producer has
\* filled in since it last started to set the slot up.
ZeroBlock ==
  [ busy |-> FALSE,
    steps |-> <<0, 0, 0, 0>>,
    step_event_count |-> 0,
    direction_bits |-> {},
    millimeters |-> 0,
    nominal_speed |-> 0,
    nominal_rate |-> 0,
    acceleration_st |-> 0,
    acceleration |-> 0,
    acceleration_rate |-> 0,
    entry_speed |-> 0,
    max_entry_speed |-> 0,
    nominal_length_flag |-> FALSE,
    recalculate_flag |-> FALSE,
    initial_rate |-> 0,
    final_rate |-> 0,
    accelerate_until |-> 0,
    decelerate_after |-> 0,
    written |-> {} ]

\* The producer when no API call is in progress.  `fn' is the API call, `at' the
\* position in it; the other fields are the locals of the functions on the call stack.
IdleProd ==
  [ fn |-> "none", at |-> "idle",
    dest |-> <<0, 0, 0, 0>>, feed_rate |-> 0, emult |-> 100, cold |-> FALSE,
    purged |-> FALSE,       \* quickStop: its loop has discarded a block
    extruder |-> 0,         \* plan_buffer_line: its extruder argument
    next_buffer_head |-> 0, block |-> NULL,
    target |-> <<0, 0, 0, 0>>, d |-> <<0, 0, 0, 0>>, safe_speed |-> 0,
    block_index |-> 0, tail |-> 0, w |-> <<NULL, NULL, NULL>>,
    current |-> NULL, next |-> NULL,
    ct |-> [ blk |-> NULL, initial_rate |-> 0, final_rate |-> 0,
             accelerate_steps |-> 0, plateau_steps |-> 0, write |-> FALSE,
             ret |-> "idle" ] ]

NoTick ==
  [ kind |-> "none", block |-> NULL, latched |-> FALSE, retired |-> FALSE,
    iters |-> 0, loops |-> 0, from |-> <<0, 0, 0, 0>>, done |-> 0,
    pins |-> {} ]           \* the endstop inputs that were active during the tick

----------------------------------------------------------------------------
(* planner.h inlines used by both contexts *)

blocks_queued == block_buffer_head # block_buffer_tail

movesplanned == BLOCK_MOD(block_buffer_head - block_buffer_tail + BLOCK_BUFFER_SIZE)

\* the block at tail, or NULL when the ring is empty
plan_get_current_block == IF blocks_queued THEN block_buffer_tail ELSE NULL

\* the value of block_buffer_tail after plan_discard_current_block()
plan_discard_current_block ==
  IF blocks_queued THEN BLOCK_MOD(block_buffer_tail + 1) ELSE block_buffer_tail

\* the slots holding queued blocks, tail .. head-1
Queued == { BLOCK_MOD(block_buffer_tail + k) : k \in 0..(movesplanned - 1) }

----------------------------------------------------------------------------
(* stepper.cpp: timer arithmetic *)

U16(x) == x % 65536

\* byte k of x
Byte(x, k) == (x \div (256 ^ k)) % 256

\* MultiU24X32toH16(intRes, longIn1, longIn2): the upper 16 bits of the 48-bit product
\* of the low 24 bits of longIn1 and longIn2, as the assembly accumulates it: partial
\* products into the 24-bit accumulator B0:A0:r27, "lsr r27" moving bit 0 of r27 into
\* the carry that is added to B0:A0, then the two products with the top byte of longIn2
MultiU24X32toH16(longIn1, longIn2) ==
  LET A1 == Byte(longIn1, 0)
      B1 == Byte(longIn1, 1)
      C1 == Byte(longIn1, 2)
      A2 == Byte(longIn2, 0)
      B2 == Byte(longIn2, 1)
      C2 == Byte(longIn2, 2)
      D2 == Byte(longIn2, 3)
      acc == ( ((A1 * B2) \div 256) + (B1 * C2) * 256 + ((C1 * C2) % 256) * 65536
               + (C1 * B2) * 256 + A1 * C2 + B1 * B2 + C1 * A2
               + ((B1 * A2) \div 256) ) % 16777216
      high == (acc \div 256) + (acc % 2)
  IN  U16(high + D2 * A1 + ((D2 * B1) % 256) * 256)

\* speed_lookuptable_fast / speed_lookuptable_slow: the timer period for a step rate
\* that has already been reduced by MIN_STEP_RATE
SpeedLookup(step_rate) == U16(TIMER_RATE \div (step_rate + MIN_STEP_RATE))

\* fault: no NOMORE(step_rate, MAX_STEP_FREQUENCY)
ClampStepRateMissing(step_rate) == U16(step_rate)

\* the step_rate calc_timer works with after NOMORE(step_rate, MAX_STEP_FREQUENCY)
ClampStepRate(step_rate) == Min(U16(step_rate), MAX_STEP_FREQUENCY)

\* the value calc_timer leaves in step_loops
calc_timer_loops(step_rate) ==
  LET r == ClampStepRate(step_rate)
  IN  IF r > 2 * DOUBLE_STEP_FREQUENCY THEN 4
      ELSE IF r > DOUBLE_STEP_FREQUENCY THEN 2
      ELSE 1

\* the value calc_timer returns
calc_timer(step_rate) ==
  LET r  == ClampStepRate(step_rate)
      r1 == IF r > 2 * DOUBLE_STEP_FREQUENCY THEN (r \div 4) % 16384
            ELSE IF r > DOUBLE_STEP_FREQUENCY THEN (r \div 2) % 32768
            ELSE r
      r2 == Max(r1, MIN_STEP_RATE) - MIN_STEP_RATE
      timer == SpeedLookup(r2)
  IN  IF timer < 100 THEN 100 ELSE timer

\* set_stepper_direction(): count_direction for the direction bits in out_bits
set_stepper_direction(bits) == [a \in Axes |-> IF a \in bits THEN -1 ELSE 1]

----------------------------------------------------------------------------
(* stepper.cpp: the step loop of ISR(TIMER1_COMPA_vect) *)

\* STEP_START / STEP_END for every axis: one inner iteration of the step loop.
\* c is the state [counter, count_position] the iteration starts from.
StepOnce(b, c, cdir) ==
  LET added == [a \in Axes |-> c.counter[a] + b.steps[a]]
  IN  [ counter |-> [a \in Axes |-> IF added[a] > 0 THEN added[a] - b.step_event_count
                                                   ELSE added[a]],
        count_position |-> [a \in Axes |-> IF added[a] > 0
                                              THEN c.count_position[a] + cdir[a]
                                              ELSE c.count_position[a]],
        completed |-> c.completed + 1,
        iters |-> c.iters + 1 ]

\* fault: the loop does not stop when the block's step events are used up
RECURSIVE StepLoopNoBreak(_, _, _, _, _)
StepLoopNoBreak(b, c, cdir, i, loops) ==
  IF i >= loops THEN c
  ELSE StepLoopNoBreak(b, StepOnce(b, c, cdir), cdir, i + 1, loops)

\* for (i = 0; i < step_loops; i++) { step; if (++step_events_completed >= step_event_count) break; }
RECURSIVE StepLoop(_, _, _, _, _)
StepLoop(b, c, cdir, i, loops) ==
  IF i >= loops THEN c
  ELSE LET n == StepOnce(b, c, cdir)
       IN  IF n.completed >= b.step_event_count THEN n
           ELSE StepLoop(b, n, cdir, i + 1, loops)

----------------------------------------------------------------------------
(* stepper.cpp: ISR(TIMER1_COMPA_vect), one action per kind of tick *)

\* nothing retired yet: per axis, the sum of steps[] and the sum of steps[] signed by
\* the direction bit
NoneRetired == [ steps |-> <<0, 0, 0, 0>>, travel |-> <<0, 0, 0, 0>> ]

\* the sums after block b has retired
Retire(r, b) ==
  [ steps |-> [a \in Axes |-> r.steps[a] + b.steps[a]],
    travel |-> [a \in Axes |-> r.travel[a]
                   + (IF a \in b.direction_bits THEN -b.steps[a] ELSE b.steps[a])] ]

\* fault: the timer interrupt is never taken
InterruptsMasked == FALSE

\* fault: CRITICAL_SECTION_START does not mask the timer interrupt
InterruptsUnmasked == stepper_irq

\* the timer interrupt can be taken
InterruptsOn == stepper_irq /\ ~critical

\* fault: the handler does not look at cleaning_buffer_counter
cleaning_ignored == FALSE

\* if (cleaning_buffer_counter): the ticks after quickStop that only clean up
cleaning == cleaning_buffer_counter # 0

\* fault: the latch does not mark the block
LatchBusyMissing(bb, b) == bb

\* current_block->busy = true
LatchBusy(bb, b) == [bb EXCEPT ![b].busy = TRUE]

\* the three axes that have endstops
EndstopAxes == {X_AXIS, Y_AXIS, Z_AXIS}

\* fault: the minimum endstop is polled whatever the direction
EndstopAtMin(a, bits) == <<a, "MIN">>

\* an endstop is <<axis, "MIN">> or <<axis, "MAX">>; the endstop update_endstops
\* samples for axis a under direction bits `bits': the MIN endstop when the axis
\* moves in the negative direction (its bit is set), the MAX endstop otherwise
EndstopTowards(a, bits) == <<a, IF a \in bits THEN "MIN" ELSE "MAX">>

\* fault: one active sample is enough
TEST_ENDSTOP_single(e, current_endstop_bits, old_bits) == e \in current_endstop_bits

\* TEST_ENDSTOP: the endstop is active in this sample and in the previous one
TEST_ENDSTOP(e, current_endstop_bits, old_bits) ==
  e \in current_endstop_bits /\ e \in old_bits

\* current_block->steps[AXIS] > 0
MovesAxis(b, a) == b.steps[a] > 0

\* update_endstops() on block b with direction bits `bits', for the set `pins' of
\* endstops whose input reads active (READ(pin) != inverting) and
\* step_events_completed = completed: the sample taken, the axes that trigger, and
\* what the triggers leave in endstops_trigsteps, endstop_hit_bits and
\* step_events_completed
update_endstops(b, bits, pins, completed) ==
  LET current_endstop_bits ==
        { e \in scn.endstops : e = EndstopTowards(e[1], bits) /\ e \in pins }
      hit == { a \in EndstopAxes :
                 /\ EndstopTowards(a, bits) \in scn.endstops
                 /\ TEST_ENDSTOP(EndstopTowards(a, bits), current_endstop_bits,
                                 old_endstop_bits)
                 /\ MovesAxis(b, a) }
  IN  [ old_endstop_bits |-> current_endstop_bits,
        hit |-> hit,
        endstops_trigsteps |-> [a \in 1..3 |-> IF a \in hit THEN count_position[a]
                                                          ELSE endstops_trigsteps[a]],
        endstop_hit_bits |-> endstop_hit_bits \cup hit,
        completed |-> IF hit # {} THEN b.step_event_count ELSE completed ]

\* if (check_endstops) update_endstops();
poll_endstops(b, bits, pins, completed) ==
  IF check_endstops
    THEN update_endstops(b, bits, pins, completed)
    ELSE [ old_endstop_bits |-> old_endstop_bits,
           hit |-> {},
           endstops_trigsteps |-> endstops_trigsteps,
           endstop_hit_bits |-> endstop_hit_bits,
           completed |-> completed ]

\* the trapezoid generator and the Bresenham counters as the tick finds them, or, when
\* the tick latches block b, as trapezoid_generator_reset() and the counter
\* initialisation leave them
Generator(latch, b) ==
  IF latch
    THEN [ out_bits |-> b.direction_bits,
           count_direction |-> IF b.direction_bits # out_bits
                                 THEN set_stepper_direction(b.direction_bits)
                                 ELSE count_direction,
           deceleration_time |-> 0,
           OCR1A_nominal |-> calc_timer(b.nominal_rate),
           step_loops_nominal |-> calc_timer_loops(b.nominal_rate),
           acc_step_rate |-> U16(b.initial_rate),
           acceleration_time |-> calc_timer(U16(b.initial_rate)),
           step_loops |-> calc_timer_loops(U16(b.initial_rate)),
           counter |-> [a \in Axes |-> -(b.step_event_count \div 2)],
           completed |-> 0 ]
    ELSE [ out_bits |-> out_bits,
           count_direction |-> count_direction,
           deceleration_time |-> deceleration_time,
           OCR1A_nominal |-> OCR1A_nominal,
           step_loops_nominal |-> step_loops_nominal,
           acc_step_rate |-> acc_step_rate,
           acceleration_time |-> acceleration_time,
           step_loops |-> step_loops,
           counter |-> counter,
           completed |-> step_events_completed ]

\* "Calculate new timer value": the step rate of the phase the block is in after the
\* step loop left step_events_completed at `completed' (acc_step_rate while
\* accelerating, the local step_rate while decelerating)
PhaseRate(b, g, completed) ==
  IF b.accelerate_until < 0 \/ completed <= b.accelerate_until
    THEN LET sum == U16(MultiU24X32toH16(g.acceleration_time, b.acceleration_rate)
                        + b.initial_rate)
         IN  IF sum > b.nominal_rate THEN U16(b.nominal_rate) ELSE sum
  ELSE IF b.decelerate_after >= 0 /\ completed > b.decelerate_after
    THEN LET sub == MultiU24X32toH16(g.deceleration_time, b.acceleration_rate)
         IN  IF sub <= g.acc_step_rate
               THEN (IF g.acc_step_rate - sub < b.final_rate
                       THEN U16(b.final_rate) ELSE g.acc_step_rate - sub)
               ELSE U16(b.final_rate)
  ELSE g.acc_step_rate

\* the generator after the phase code, for the step rate `rate' of the phase and
\* timer = calc_timer(rate)
Phase(b, g, completed, rate, timer) ==
  IF b.accelerate_until < 0 \/ completed <= b.accelerate_until
    THEN [g EXCEPT !.acc_step_rate = rate,
                   !.step_loops = calc_timer_loops(rate),
                   !.acceleration_time = g.acceleration_time + timer] @@ [OCR1A |-> timer]
  ELSE IF b.decelerate_after >= 0 /\ completed > b.decelerate_after
    THEN [g EXCEPT !.step_loops = calc_timer_loops(rate),
                   !.deceleration_time = g.deceleration_time + timer] @@ [OCR1A |-> timer]
  ELSE [g EXCEPT !.step_loops = g.step_loops_nominal] @@ [OCR1A |-> g.OCR1A_nominal]

\* if (cleaning_buffer_counter) { ... return; }
ISR_Cleanup ==
  /\ InterruptsOn
  /\ cleaning
  /\ current_block' = NULL
  /\ block_buffer_tail' = plan_discard_current_block
  /\ pending' = IF blocks_queued THEN pending - 1 ELSE pending
  /\ cleaning_buffer_counter' = cleaning_buffer_counter - 1
  /\ OCR1A' = 200
  /\ op' = "ISR"
  /\ tick' = [tick EXCEPT !.kind = "cleanup", !.block = NULL, !.latched = FALSE,
                          !.retired = FALSE, !.iters = 0, !.pins = {}]
  /\ UNCHANGED <<block_buffer, block_buffer_head, position, previous_speed,
                 previous_nominal_speed, last_extruder, counter, step_events_completed, out_bits,
                 count_direction, count_position, step_loops, step_loops_nominal,
                 acc_step_rate, acceleration_time, deceleration_time, OCR1A_nominal,
                 stepper_irq, critical, prod, ncalls, scn, endstop_vars, ledger>>

\* no latched block and nothing in the buffer: OCR1A = 2000
ISR_Idle ==
  /\ InterruptsOn
  /\ ~cleaning
  /\ current_block = NULL
  /\ plan_get_current_block = NULL
  /\ OCR1A' = 2000
  /\ op' = "ISR"
  /\ tick' = [tick EXCEPT !.kind = "idle", !.block = NULL, !.latched = FALSE,
                          !.retired = FALSE, !.iters = 0, !.pins = {}]
  /\ UNCHANGED <<planner_vars, current_block, counter, step_events_completed, out_bits,
                 count_direction, count_position, step_loops, step_loops_nominal,
                 acc_step_rate, acceleration_time, deceleration_time, OCR1A_nominal,
                 cleaning_buffer_counter, stepper_irq, critical, prod, ncalls, scn, endstop_vars, ledger,
                 pending>>

\* a tick that traces a block: latch one if none is latched, run the step loop, set the
\* next period, retire the block when its step events are used up
ISR_Trace ==
  /\ InterruptsOn
  /\ ~cleaning
  /\ current_block # NULL \/ plan_get_current_block # NULL
  /\ \E latch \in {current_block = NULL} :
     \E cb \in {IF latch THEN plan_get_current_block ELSE current_block} :
     \E bb \in {IF latch THEN LatchBusy(block_buffer, cb) ELSE block_buffer} :
     \E b \in {bb[cb]} :
         \E g \in {Generator(latch, b)} :
         \E pins \in SUBSET scn.endstops :
         \E es \in {poll_endstops(b, g.out_bits, pins, g.completed)} :
         \E r \in {StepLoop(b, [counter |-> g.counter, count_position |-> count_position,
                                completed |-> es.completed, iters |-> 0],
                            g.count_direction, 0, g.step_loops)} :
         \E rate \in {PhaseRate(b, g, r.completed)} :
         \E timer \in {calc_timer(rate)} :
         \E h \in {Phase(b, g, r.completed, rate, timer)} :
         LET retire == r.completed >= b.step_event_count IN
         /\ block_buffer' = bb
         /\ out_bits' = g.out_bits
         /\ count_direction' = g.count_direction
         /\ counter' = r.counter
         /\ count_position' = r.count_position
         /\ step_events_completed' = r.completed
         /\ old_endstop_bits' = es.old_endstop_bits
         /\ endstop_hit_bits' = es.endstop_hit_bits
         /\ endstops_trigsteps' = es.endstops_trigsteps
         /\ acc_step_rate' = h.acc_step_rate
         /\ acceleration_time' = h.acceleration_time
         /\ deceleration_time' = h.deceleration_time
         /\ OCR1A_nominal' = h.OCR1A_nominal
         /\ step_loops_nominal' = h.step_loops_nominal
         /\ step_loops' = h.step_loops
         /\ OCR1A' = h.OCR1A
         /\ current_block' = IF retire THEN NULL ELSE cb
         /\ block_buffer_tail' = IF retire THEN plan_discard_current_block
                                            ELSE block_buffer_tail
         /\ pending' = IF retire /\ blocks_queued THEN pending - 1 ELSE pending
         /\ retired' = IF retire THEN Retire(retired, b) ELSE retired
         /\ tick' = [ kind |-> "step", block |-> cb, latched |-> latch,
                      retired |-> retire, iters |-> r.iters,
                      loops |-> g.step_loops,
                      from |-> IF latch THEN count_position ELSE tick.from,
                      done |-> (IF latch THEN 0 ELSE tick.done) + r.iters,
                      pins |-> pins ]
  /\ op' = "ISR"
  /\ UNCHANGED <<block_buffer_head, position, previous_speed, previous_nominal_speed, last_extruder,
                 cleaning_buffer_counter, check_endstops, stepper_irq, critical, prod,
                 ncalls, scn, initial_position>>

----------------------------------------------------------------------------
(* planner.cpp: the planner's settings.  They are variables of the firmware    *)
(* (M92, M201, M203, M204, M205, M221 change them); a behaviour keeps the      *)
(* values its scenario starts with.                                            *)

\* the tool selected; no scenario changes it
active_extruder == 0

\* axis_steps_per_unit[E_AXIS + extruder], steps/mm
EStepsPerUnit(extruder) ==
  IF extruder = 1 THEN scn.e1_steps_per_unit ELSE scn.axis_steps_per_unit[E_AXIS]

\* axis_steps_per_unit[] as the call in progress indexes it: X, Y, Z and
\* E_AXIS + extruder                                                     steps/mm
axis_steps_per_unit ==
  [a \in Axes |-> IF a = E_AXIS THEN EStepsPerUnit(prod.extruder)
                                ELSE scn.axis_steps_per_unit[a]]
max_feedrate == scn.max_feedrate                                     \* 1/100 mm/s
max_acceleration_units_per_sq_second == scn.max_acceleration         \* mm/s^2
acceleration == scn.acceleration                                     \* mm/s^2
retract_acceleration == scn.retract_acceleration
travel_acceleration == scn.travel_acceleration
max_xy_jerk == scn.max_xy_jerk                                       \* 1/100 mm/s
max_z_jerk == scn.max_z_jerk
max_e_jerk == scn.max_e_jerk
minimumfeedrate == scn.minimumfeedrate
mintravelfeedrate == scn.mintravelfeedrate
volumetric_multiplier == scn.volumetric_multiplier                   \* percent

\* reset_acceleration_rates()
axis_steps_per_sqr_second ==
  [a \in Axes |-> max_acceleration_units_per_sq_second[a] * axis_steps_per_unit[a]]

----------------------------------------------------------------------------
(* planner.cpp: the trapezoid solver *)

\* fault: the distance is not halved
estimate_acceleration_distance_doubled(initial_rate, target_rate, acc) ==
  [ num |-> target_rate * target_rate - initial_rate * initial_rate, den |-> acc ]

\* estimate_acceleration_distance, before the caller rounds it: numerator and
\* denominator of (target_rate^2 - initial_rate^2) / (2 * acceleration)
estimate_acceleration_distance(initial_rate, target_rate, acc) ==
  [ num |-> target_rate * target_rate - initial_rate * initial_rate, den |-> 2 * acc ]

\* intersection_distance, as numerator and denominator
intersection_distance(initial_rate, final_rate, acc, distance) ==
  [ num |-> 2 * acc * distance - initial_rate * initial_rate + final_rate * final_rate,
    den |-> 4 * acc ]

\* max_allowable_speed(acceleration, target_velocity, distance), speeds in 1/100 mm/s,
\* distance in 1/100 mm, acceleration in mm/s^2
max_allowable_speed(acc, target_velocity, distance) ==
  ISqrt(target_velocity * target_velocity - 200 * acc * distance)

\* The values calculate_trapezoid_for_block computes before it enters its critical
\* section.  The entry and exit factors are the fractions entry_n/factor_d and
\* exit_n/factor_d.
TrapezoidValues(b, entry_n, exit_n, factor_d) ==
  LET initial_rate == Max(CeilDiv(b.nominal_rate * entry_n, factor_d), MIN_RATE)
      final_rate == Max(CeilDiv(b.nominal_rate * exit_n, factor_d), MIN_RATE)
      acc == b.acceleration_st
      up == estimate_acceleration_distance(initial_rate, b.nominal_rate, acc)
      down == estimate_acceleration_distance(b.nominal_rate, final_rate, -acc)
      accelerate_steps == IF acc = 0 THEN 0 ELSE CeilDiv(up.num, up.den)
      decelerate_steps == IF acc = 0 THEN 0 ELSE FloorDiv(-down.num, -down.den)
      plateau_steps == b.step_event_count - accelerate_steps - decelerate_steps
      cross == intersection_distance(initial_rate, final_rate, acc, b.step_event_count)
      crossed == IF acc = 0 THEN 0 ELSE CeilDiv(cross.num, cross.den)
  IN  [ initial_rate |-> initial_rate,
        final_rate |-> final_rate,
        accelerate_steps |-> IF plateau_steps < 0
                               THEN Min(Max(crossed, 0), b.step_event_count)
                               ELSE accelerate_steps,
        plateau_steps |-> IF plateau_steps < 0 THEN 0 ELSE plateau_steps ]

----------------------------------------------------------------------------
(* planner.cpp: the lookahead kernels *)

\* planner_reverse_pass_kernel(previous, current, next) on slot indices (NULL for a
\* null pointer): the ring after the call
planner_reverse_pass_kernel(bb, previous, current, next) ==
  IF current = NULL \/ next = NULL THEN bb
  ELSE LET cur == bb[current]
           max_entry_speed == cur.max_entry_speed
       IN  IF cur.entry_speed = max_entry_speed THEN bb
           ELSE IF ~cur.nominal_length_flag /\ max_entry_speed > bb[next].entry_speed
             THEN [bb EXCEPT ![current].entry_speed =
                                Min(max_entry_speed,
                                    max_allowable_speed(-cur.acceleration,
                                                        bb[next].entry_speed,
                                                        cur.millimeters)),
                             ![current].recalculate_flag = TRUE]
             ELSE [bb EXCEPT ![current].entry_speed = max_entry_speed,
                             ![current].recalculate_flag = TRUE]

\* planner_forward_pass_kernel(previous, current, next)
planner_forward_pass_kernel(bb, previous, current, next) ==
  IF previous = NULL THEN bb
  ELSE LET prev == bb[previous]
           cur == bb[current]
           entry_speed == Min(cur.entry_speed,
                              max_allowable_speed(-prev.acceleration, prev.entry_speed,
                                                  prev.millimeters))
       IN  IF ~prev.nominal_length_flag /\ prev.entry_speed < cur.entry_speed
                /\ cur.entry_speed # entry_speed
             THEN [bb EXCEPT ![current].entry_speed = entry_speed,
                             ![current].recalculate_flag = TRUE]
             ELSE bb

----------------------------------------------------------------------------
(* planner.cpp: plan_buffer_line, the values it computes *)

\* target[] in steps for a destination given in 1/100 mm
PlanTarget(dest) == [a \in Axes |-> RoundDiv(dest[a] * axis_steps_per_unit[a], 100)]

\* fault: the X step count is taken from the Y delta
BlockStepsFromY(d, emult) ==
  [a \in Axes |-> IF a = E_AXIS
                    THEN (((Abs(d[a]) * volumetric_multiplier) \div 100) * emult) \div 100
                    ELSE IF a = X_AXIS THEN Abs(d[Y_AXIS]) ELSE Abs(d[a])]

\* block->steps[] for the step deltas d; the E count is scaled by the volumetric and
\* the extrusion multiplier
BlockSteps(d, emult) ==
  [a \in Axes |-> IF a = E_AXIS
                    THEN (((Abs(d[a]) * volumetric_multiplier) \div 100) * emult) \div 100
                    ELSE Abs(d[a])]

StepEventCount(steps) ==
  Max(steps[X_AXIS], Max(steps[Y_AXIS], Max(steps[Z_AXIS], steps[E_AXIS])))

\* fault: the sign test of the direction bits is inverted
DirectionBitsInverted(d) == {a \in Axes : d[a] > 0}

\* dirb: the axes with a negative delta
DirectionBits(d) == {a \in Axes : d[a] < 0}

\* delta_mm[] in 1/100 mm
DeltaMM(d, emult) ==
  [a \in Axes |-> IF a = E_AXIS
                    THEN TruncDiv(d[a] * volumetric_multiplier * emult,
                                  axis_steps_per_unit[a] * 100)
                    ELSE TruncDiv(100 * d[a], axis_steps_per_unit[a])]

\* block->millimeters
Millimeters(steps, delta_mm) ==
  IF steps[X_AXIS] <= DROP_SEGMENTS /\ steps[Y_AXIS] <= DROP_SEGMENTS
       /\ steps[Z_AXIS] <= DROP_SEGMENTS
    THEN Abs(delta_mm[E_AXIS])
    ELSE ISqrt(delta_mm[X_AXIS] * delta_mm[X_AXIS] + delta_mm[Y_AXIS] * delta_mm[Y_AXIS]
               + delta_mm[Z_AXIS] * delta_mm[Z_AXIS])

\* speed_factor as a fraction [n, d] <= 1: the smallest max_feedrate[i] / |current_speed[i]|
\* over the axes that exceed their maximum, 1/1 when none does
RECURSIVE SpeedFactor(_, _, _)
SpeedFactor(current_speed, i, f) ==
  IF i > NUM_AXIS THEN f
  ELSE LET cs == Abs(current_speed[i])
           mf == max_feedrate[i]
       IN  SpeedFactor(current_speed, i + 1,
                       IF cs > mf /\ mf * f.d < f.n * cs THEN [n |-> mf, d |-> cs] ELSE f)

\* fault: no clamp
LimitAccelerationMissing(acc_st, steps, sec, i) == acc_st

\* "Limit acceleration per axis": acc_st after the four clamps, taken in axis order
RECURSIVE LimitAcceleration(_, _, _, _)
LimitAcceleration(acc_st, steps, sec, i) ==
  IF i > NUM_AXIS THEN acc_st
  ELSE LimitAcceleration(IF acc_st * steps[i] > axis_steps_per_sqr_second[i] * sec
                           THEN axis_steps_per_sqr_second[i] ELSE acc_st,
                         steps, sec, i + 1)

\* vmax_junction_factor applied to nominal_speed: the jerk limits of lines 1112-1114
JunctionLimited(nominal_speed, jerk, dsz, dse) ==
  LET byxy == IF jerk > max_xy_jerk THEN TruncDiv(nominal_speed * max_xy_jerk, jerk)
                                   ELSE nominal_speed
      byz == IF dsz > max_z_jerk THEN TruncDiv(nominal_speed * max_z_jerk, dsz)
                                 ELSE nominal_speed
      bye == IF dse > max_e_jerk THEN TruncDiv(nominal_speed * max_e_jerk, dse)
                                 ELSE nominal_speed
  IN  Min(byxy, Min(byz, bye))

\* Lines 812-1133 of plan_buffer_line: the block b (its steps already set) with every
\* field up to recalculate_flag filled in, for the step deltas d, the feed rate and the
\* number of moves queued; also current_speed[] and safe_speed.
PlanBlock(b, d, feed, emult, moves_queued) ==
  LET steps == b.steps
      sec == b.step_event_count
      feed_rate == Max(feed, IF steps[E_AXIS] # 0 THEN minimumfeedrate
                                                ELSE mintravelfeedrate)
      delta_mm == DeltaMM(d, emult)
      millimeters == Millimeters(steps, delta_mm)
      speed0 == [a \in Axes |-> TruncDiv(delta_mm[a] * feed_rate, millimeters)]
      sf == SpeedFactor(speed0, 1, [n |-> 1, d |-> 1])
      current_speed == [a \in Axes |-> TruncDiv(speed0[a] * sf.n, sf.d)]
      nominal_speed == TruncDiv(feed_rate * sf.n, sf.d)
      nominal_rate == (CeilDiv(sec * feed_rate, millimeters) * sf.n) \div sf.d
      base == IF steps[X_AXIS] = 0 /\ steps[Y_AXIS] = 0 /\ steps[Z_AXIS] = 0
                THEN retract_acceleration
              ELSE IF steps[E_AXIS] = 0 THEN travel_acceleration
              ELSE acceleration
      acc_st == LimitAcceleration(CeilDiv(base * sec * 100, millimeters), steps, sec, 1)
      acc_mm == TruncDiv(acc_st * millimeters, sec * 100)
      csz == current_speed[Z_AXIS]
      cse == current_speed[E_AXIS]
      half_xy == max_xy_jerk \div 2
      half_z == max_z_jerk \div 2
      half_e == max_e_jerk \div 2
      safe1 == IF Abs(csz) > half_z THEN Min(half_xy, half_z) ELSE half_xy
      safe2 == IF Abs(cse) > half_e THEN Min(safe1, half_e) ELSE safe1
      safe_speed == Min(safe2, nominal_speed)
      dsx == current_speed[X_AXIS] - previous_speed[X_AXIS]
      dsy == current_speed[Y_AXIS] - previous_speed[Y_AXIS]
      dsz == Abs(csz - previous_speed[Z_AXIS])
      dse == Abs(cse - previous_speed[E_AXIS])
      jerk == ISqrt(dsx * dsx + dsy * dsy)
      vmax_junction == IF moves_queued > 1 /\ previous_nominal_speed > 0
                         THEN Min(previous_nominal_speed,
                                  JunctionLimited(nominal_speed, jerk, dsz, dse))
                         ELSE safe_speed
      v_allowable == max_allowable_speed(-acc_mm, MINIMUM_PLANNER_SPEED, millimeters)
  IN  [ block |-> [b EXCEPT !.direction_bits = DirectionBits(d),
                            !.millimeters = millimeters,
                            !.nominal_speed = nominal_speed,
                            !.nominal_rate = nominal_rate,
                            !.acceleration_st = acc_st,
                            !.acceleration = acc_mm,
                            !.acceleration_rate = acc_st * 8 + ((acc_st * 6072) \div 15625),
                            !.max_entry_speed = vmax_junction,
                            !.entry_speed = Min(vmax_junction, v_allowable),
                            !.nominal_length_flag = (nominal_speed <= v_allowable),
                            !.recalculate_flag = TRUE,
                            !.written = b.written \cup {"rates"}],
        current_speed |-> current_speed,
        safe_speed |-> safe_speed ]

----------------------------------------------------------------------------
(* planner.cpp: plan_buffer_line, step by step *)

\* the locals of a call calculate_trapezoid_for_block(&block_buffer[blk], entry_n /
\* factor_d, exit_n / factor_d) on the block contents b, returning to `ret'
TrapezoidCall(b, blk, entry_n, exit_n, factor_d, ret) ==
  TrapezoidValues(b, entry_n, exit_n, factor_d)
    @@ [blk |-> blk, write |-> FALSE, ret |-> ret]

\* fault: the extruder move is suppressed whatever the hotend temperature
cold_extrude_stop_always(de, cold) == de # 0

\* PREVENT_DANGEROUS_EXTRUDE: if (de) and the hotend is too cold, the E part of the move
\* is dropped (position[E_AXIS] = target[E_AXIS]; de = 0) and an error is echoed
cold_extrude_stop(de, cold) == de # 0 /\ cold

\* if (last_extruder != extruder && the two steps-per-unit differ)
\*   position[E_AXIS] = lround(position[E_AXIS] * factor)
RescalePosition(pos, extruder) ==
  IF last_extruder # extruder /\ EStepsPerUnit(extruder) # EStepsPerUnit(last_extruder)
    THEN [pos EXCEPT ![E_AXIS] = RoundDiv(pos[E_AXIS] * EStepsPerUnit(extruder),
                                          EStepsPerUnit(last_extruder))]
    ELSE pos

\* the step deltas plan_buffer_line works with for a destination, from the planner
\* position as it is now
PlanDeltas(dest, cold) ==
  LET target == PlanTarget(dest)
      pos == RescalePosition(position, prod.extruder)
  IN  [a \in Axes |->
         IF a = E_AXIS /\ cold_extrude_stop(target[a] - pos[a], cold) THEN 0
         ELSE target[a] - pos[a]]

\* if (block->step_event_count <= DROP_SEGMENTS) return; for the step deltas d
DropsMove(d, emult) == StepEventCount(BlockSteps(d, emult)) <= DROP_SEGMENTS

\* fault: plan_buffer_line does not wait for room
buffer_full_ignored(next_buffer_head) == FALSE

\* while (block_buffer_tail == next_buffer_head): the ring has no room
buffer_full(next_buffer_head) == block_buffer_tail = next_buffer_head

\* fault: block_buffer_head is moved right after the step counts are stored
PlanBufferLineOrderHeadFirst(at) ==
  CASE at = "wait" -> "fill"
    [] at = "fill" -> "advance"
    [] at = "advance" -> "compute"
    [] at = "compute" -> "ct_start"
    [] at = "ct_end" -> "position"
    [] at = "position" -> "rp_start"

\* the order of the statements of plan_buffer_line: the position that follows `at'
\* ("ct_end" stands for the return of its call of calculate_trapezoid_for_block)
PlanBufferLineOrder(at) ==
  CASE at = "wait" -> "fill"
    [] at = "fill" -> "compute"
    [] at = "compute" -> "ct_start"
    [] at = "ct_end" -> "advance"
    [] at = "advance" -> "position"
    [] at = "position" -> "rp_start"

\* the main loop calls plan_buffer_line(x, y, z, e, feed_rate, extruder, driver)
CallPlanBufferLine ==
  /\ prod.at = "idle"
  /\ ncalls < MaxCalls
  /\ "plan_buffer_line" \in scn.calls
  /\ \E dest \in scn.dests, feed \in scn.feeds, emult \in scn.emults, cold \in scn.cold,
        extruder \in scn.extruders :
       prod' = [IdleProd EXCEPT !.fn = "plan_buffer_line", !.at = "wait",
                                !.dest = dest, !.feed_rate = feed, !.emult = emult,
                                !.cold = cold, !.extruder = extruder,
                                !.next_buffer_head = next_block_index(block_buffer_head)]
  /\ ncalls' = ncalls + 1
  /\ op' = "plan_buffer_line"
  /\ UNCHANGED <<planner_vars, stepper_vars, stepper_irq, critical, scn, endstop_vars, ledger, pending, tick>>

plan_buffer_line ==
  /\ prod.fn = "plan_buffer_line"
  /\ prod.at \in {"wait", "fill", "compute", "advance", "position"}
  /\ op' = "plan_buffer_line"
  /\ UNCHANGED <<block_buffer_tail, last_extruder, stepper_vars, stepper_irq, critical, ncalls, scn, endstop_vars, ledger, tick>>
  /\ pending' = IF prod.at = "advance" THEN pending + 1 ELSE pending
  /\ CASE prod.at = "wait" ->
            \* while (block_buffer_tail == next_buffer_head) idle();  then target[], the
            \* deltas and the cold extrusion guard
            /\ ~buffer_full(prod.next_buffer_head)
            /\ LET target == PlanTarget(prod.dest)
                   scaled == RescalePosition(position, prod.extruder)
                   de == target[E_AXIS] - scaled[E_AXIS]
                   stop == cold_extrude_stop(de, prod.cold)
                   pos == IF stop THEN [scaled EXCEPT ![E_AXIS] = target[E_AXIS]]
                                  ELSE scaled
               IN  /\ position' = pos
                   /\ prod' = [prod EXCEPT !.at = PlanBufferLineOrder("wait"),
                                           !.target = target,
                                           !.d = [a \in Axes |-> target[a] - pos[a]]]
            /\ UNCHANGED <<block_buffer, block_buffer_head, previous_speed,
                           previous_nominal_speed>>
       [] prod.at = "fill" ->
            \* block = &block_buffer[block_buffer_head]; block->busy = false; steps[];
            \* step_event_count; bail if too short
            LET steps == BlockSteps(prod.d, prod.emult)
                sec == StepEventCount(steps)
            IN  /\ block_buffer' = [block_buffer EXCEPT ![block_buffer_head] =
                                       [@ EXCEPT !.busy = FALSE, !.steps = steps,
                                                 !.step_event_count = sec,
                                                 !.written = {"basic"}]]
                /\ prod' = IF sec <= DROP_SEGMENTS THEN IdleProd
                              ELSE [prod EXCEPT !.at = PlanBufferLineOrder("fill"),
                                                !.block = block_buffer_head]
                /\ UNCHANGED <<block_buffer_head, position, previous_speed,
                               previous_nominal_speed>>
       [] prod.at = "compute" ->
            \* direction bits .. recalculate_flag, previous_speed, and the arguments of
            \* calculate_trapezoid_for_block
            LET r == PlanBlock(block_buffer[prod.block], prod.d, prod.feed_rate,
                               prod.emult, movesplanned)
                bb == [block_buffer EXCEPT ![prod.block] = r.block]
            IN  /\ block_buffer' = bb
                /\ previous_speed' = r.current_speed
                /\ previous_nominal_speed' = r.block.nominal_speed
                /\ prod' = [prod EXCEPT
                       !.at = PlanBufferLineOrder("compute"),
                       !.safe_speed = r.safe_speed,
                       !.ct = TrapezoidCall(r.block, prod.block,
                                            r.block.entry_speed, r.safe_speed,
                                            r.block.nominal_speed,
                                            PlanBufferLineOrder("ct_end"))]
                /\ UNCHANGED <<block_buffer_head, position>>
       [] prod.at = "advance" ->
            \* block_buffer_head = next_buffer_head;
            /\ block_buffer_head' = prod.next_buffer_head
            /\ prod' = [prod EXCEPT !.at = PlanBufferLineOrder("advance")]
            /\ UNCHANGED <<block_buffer, position, previous_speed,
                           previous_nominal_speed>>
       [] prod.at = "position" ->
            \* memcpy(position, target, sizeof(target));
            /\ position' = prod.target
            /\ prod' = [prod EXCEPT !.at = PlanBufferLineOrder("position")]
            /\ UNCHANGED <<block_buffer, block_buffer_head, previous_speed,
                           previous_nominal_speed>>

\* fault: the trapezoid is rewritten whatever block->busy says
block_busy_ignored(b) == TRUE

\* if (!block->busy): the trapezoid of block b may be rewritten
block_not_busy(b) == ~b.busy

\* calculate_trapezoid_for_block from CRITICAL_SECTION_START on

calculate_trapezoid_for_block ==
  /\ prod.at \in {"ct_start", "ct_test", "ct_w1", "ct_w2", "ct_end"}
  /\ op' = "calculate_trapezoid_for_block"
  /\ UNCHANGED <<block_buffer_head, block_buffer_tail, position, previous_speed,
                 previous_nominal_speed, last_extruder, stepper_vars, stepper_irq, ncalls, scn, endstop_vars, ledger, pending, tick>>
  /\ CASE prod.at = "ct_start" ->
            /\ critical' = TRUE
            /\ prod' = [prod EXCEPT !.at = "ct_test"]
            /\ UNCHANGED block_buffer
       [] prod.at = "ct_test" ->
            \* if (!block->busy)
            /\ prod' = [prod EXCEPT !.ct.write = block_not_busy(block_buffer[prod.ct.blk]),
                                    !.at = IF block_not_busy(block_buffer[prod.ct.blk])
                                             THEN "ct_w1" ELSE "ct_end"]
            /\ UNCHANGED <<block_buffer, critical>>
       [] prod.at = "ct_w1" ->
            /\ block_buffer' = [block_buffer EXCEPT ![prod.ct.blk] =
                   [@ EXCEPT !.accelerate_until = prod.ct.accelerate_steps,
                             !.decelerate_after = prod.ct.accelerate_steps
                                                  + prod.ct.plateau_steps]]
            /\ prod' = [prod EXCEPT !.at = "ct_w2"]
            /\ UNCHANGED critical
       [] prod.at = "ct_w2" ->
            /\ block_buffer' = [block_buffer EXCEPT ![prod.ct.blk] =
                   [@ EXCEPT !.initial_rate = prod.ct.initial_rate,
                             !.final_rate = prod.ct.final_rate,
                             !.written = @ \cup {"trap"}]]
            /\ prod' = [prod EXCEPT !.at = "ct_end"]
            /\ UNCHANGED critical
       [] prod.at = "ct_end" ->
            /\ critical' = FALSE
            /\ prod' = [prod EXCEPT !.at = prod.ct.ret]
            /\ UNCHANGED block_buffer

----------------------------------------------------------------------------
(* planner.cpp: planner_recalculate *)

planner_reverse_pass ==
  /\ prod.at \in {"rp_start", "rp_loop"}
  /\ op' = "planner_reverse_pass"
  /\ UNCHANGED <<block_buffer_head, block_buffer_tail, position, previous_speed,
                 previous_nominal_speed, last_extruder, stepper_vars, stepper_irq, critical, ncalls,
                 scn, endstop_vars, ledger, pending, tick>>
  /\ CASE prod.at = "rp_start" ->
            \* tail = block_buffer_tail in a critical section; if more than 3 moves queued
            /\ prod' = IF BLOCK_MOD(block_buffer_head - block_buffer_tail
                                    + BLOCK_BUFFER_SIZE) > 3
                         THEN [prod EXCEPT !.at = "rp_loop", !.tail = block_buffer_tail,
                                           !.block_index = BLOCK_MOD(block_buffer_head - 3),
                                           !.w = <<NULL, NULL, NULL>>]
                         ELSE [prod EXCEPT !.at = "fp_start", !.tail = block_buffer_tail]
            /\ UNCHANGED block_buffer
       [] prod.at = "rp_loop" ->
            \* while (block_index != tail) { ... kernel(block[0], block[1], block[2]) }
            IF prod.block_index # prod.tail
              THEN LET bi == prev_block_index(prod.block_index)
                       w == <<bi, prod.w[1], prod.w[2]>>
                   IN  /\ block_buffer' =
                            planner_reverse_pass_kernel(block_buffer, w[1], w[2], w[3])
                       /\ prod' = [prod EXCEPT !.block_index = bi, !.w = w]
              ELSE /\ prod' = [prod EXCEPT !.at = "fp_start"]
                   /\ UNCHANGED block_buffer

planner_forward_pass ==
  /\ prod.at \in {"fp_start", "fp_loop"}
  /\ op' = "planner_forward_pass"
  /\ UNCHANGED <<block_buffer_head, block_buffer_tail, position, previous_speed,
                 previous_nominal_speed, last_extruder, stepper_vars, stepper_irq, critical, ncalls,
                 scn, endstop_vars, ledger, pending, tick>>
  /\ CASE prod.at = "fp_start" ->
            \* block_index = block_buffer_tail
            /\ prod' = [prod EXCEPT !.at = "fp_loop", !.block_index = block_buffer_tail,
                                    !.w = <<NULL, NULL, NULL>>]
            /\ UNCHANGED block_buffer
       [] prod.at = "fp_loop" ->
            IF prod.block_index # block_buffer_head
              THEN LET w == <<prod.w[2], prod.w[3], prod.block_index>>
                   IN  /\ block_buffer' =
                            planner_forward_pass_kernel(block_buffer, w[1], w[2], w[3])
                       /\ prod' = [prod EXCEPT !.w = w,
                                     !.block_index = next_block_index(prod.block_index)]
              ELSE \* planner_forward_pass_kernel(block[1], block[2], NULL)
                   /\ block_buffer' =
                        planner_forward_pass_kernel(block_buffer, prod.w[2], prod.w[3], NULL)
                   /\ prod' = [prod EXCEPT !.at = "rt_start"]

planner_recalculate_trapezoids ==
  /\ prod.at \in {"rt_start", "rt_loop", "rt_flag", "rt_last_flag"}
  /\ op' = "planner_recalculate_trapezoids"
  /\ UNCHANGED <<block_buffer_head, block_buffer_tail, position, previous_speed,
                 previous_nominal_speed, last_extruder, stepper_vars, stepper_irq, critical, ncalls,
                 scn, endstop_vars, ledger, pending, tick>>
  /\ CASE prod.at = "rt_start" ->
            \* block_index = block_buffer_tail; next = NULL
            /\ prod' = [prod EXCEPT !.at = "rt_loop", !.block_index = block_buffer_tail,
                                    !.current = NULL, !.next = NULL]
            /\ UNCHANGED block_buffer
       [] prod.at = "rt_loop" ->
            /\ UNCHANGED block_buffer
            /\ IF prod.block_index # block_buffer_head
                 THEN LET current == prod.next
                          next == prod.block_index
                      IN  IF current # NULL
                               /\ (block_buffer[current].recalculate_flag
                                     \/ block_buffer[next].recalculate_flag)
                            THEN prod' = [prod EXCEPT
                                   !.current = current, !.next = next, !.at = "ct_start",
                                   !.ct = TrapezoidCall(block_buffer[current], current,
                                            block_buffer[current].entry_speed,
                                            block_buffer[next].entry_speed,
                                            block_buffer[current].nominal_speed,
                                            "rt_flag")]
                            ELSE prod' = [prod EXCEPT
                                   !.current = current, !.next = next,
                                   !.block_index = next_block_index(prod.block_index)]
                 ELSE IF prod.next # NULL
                   THEN prod' = [prod EXCEPT
                          !.at = "ct_start",
                          !.ct = TrapezoidCall(block_buffer[prod.next], prod.next,
                                   block_buffer[prod.next].entry_speed,
                                   MINIMUM_PLANNER_SPEED,
                                   block_buffer[prod.next].nominal_speed,
                                   "rt_last_flag")]
                   ELSE prod' = [prod EXCEPT !.at = "wake"]
       [] prod.at = "rt_flag" ->
            \* current->recalculate_flag = false; block_index = next_block_index(block_index)
            /\ block_buffer' = [block_buffer EXCEPT ![prod.current].recalculate_flag = FALSE]
            /\ prod' = [prod EXCEPT !.at = "rt_loop",
                                    !.block_index = next_block_index(prod.block_index)]
       [] prod.at = "rt_last_flag" ->
            \* next->recalculate_flag = false
            /\ block_buffer' = [block_buffer EXCEPT ![prod.next].recalculate_flag = FALSE]
            /\ prod' = [prod EXCEPT !.at = "wake"]

\* stepper.cpp: st_wake_up(), the last statement of plan_buffer_line
st_wake_up ==
  /\ prod.at = "wake"
  /\ stepper_irq' = TRUE
  /\ prod' = IdleProd
  /\ op' = "st_wake_up"
  /\ UNCHANGED <<planner_vars, stepper_vars, critical, ncalls, scn, endstop_vars, ledger, pending, tick>>

----------------------------------------------------------------------------
(* planner.cpp: plan_set_position;  stepper.cpp: st_set_position, st_synchronize, *)
(* quickStop                                                                      *)

CallPlanSetPosition ==
  /\ prod.at = "idle"
  /\ ncalls < MaxCalls
  /\ "plan_set_position" \in scn.calls
  /\ \E dest \in scn.dests :
       prod' = [IdleProd EXCEPT !.fn = "plan_set_position", !.at = "psp_position",
                                !.dest = dest]
  /\ ncalls' = ncalls + 1
  /\ op' = "plan_set_position"
  /\ UNCHANGED <<planner_vars, stepper_vars, stepper_irq, critical, scn, endstop_vars, ledger, pending, tick>>

plan_set_position ==
  /\ prod.at \in {"psp_position", "psp_speed"}
  /\ op' = "plan_set_position"
  /\ UNCHANGED <<block_buffer, block_buffer_head, block_buffer_tail, stepper_vars,
                 stepper_irq, critical, ncalls, scn, endstop_vars, ledger, pending, tick>>
  /\ CASE prod.at = "psp_position" ->
            \* position[] = lround(.. * axis_steps_per_unit[])
            /\ position' = PlanTarget(prod.dest)
            /\ last_extruder' = active_extruder
            /\ prod' = [prod EXCEPT !.at = "st_set_position",
                                    !.target = PlanTarget(prod.dest)]
            /\ UNCHANGED <<previous_speed, previous_nominal_speed>>
       [] prod.at = "psp_speed" ->
            /\ previous_nominal_speed' = 0
            /\ previous_speed' = <<0, 0, 0, 0>>
            /\ prod' = IdleProd
            /\ UNCHANGED <<position, last_extruder>>

\* the producer's places inside st_set_position's critical section: before the store
\* to count_position[a], a = 1..4
SetStage == <<"ssp_x", "ssp_y", "ssp_z", "ssp_e">>

\* st_set_position(nx, ny, nz, ne): CRITICAL_SECTION_START, one store per axis,
\* CRITICAL_SECTION_END
st_set_position ==
  /\ prod.at \in {"st_set_position", "ssp_end"} \cup {SetStage[a] : a \in Axes}
  /\ op' = "st_set_position"
  /\ UNCHANGED <<planner_vars, current_block, counter, step_events_completed, out_bits,
                 count_direction, step_loops, step_loops_nominal, acc_step_rate,
                 acceleration_time, deceleration_time, OCR1A_nominal, OCR1A,
                 cleaning_buffer_counter, stepper_irq, ncalls, scn, endstop_vars, ledger,
                 pending, tick>>
  /\ CASE prod.at = "st_set_position" ->
            /\ critical' = TRUE
            /\ prod' = [prod EXCEPT !.at = SetStage[X_AXIS]]
            /\ UNCHANGED count_position
       [] prod.at = "ssp_end" ->
            /\ critical' = FALSE
            /\ prod' = [prod EXCEPT !.at = "psp_speed"]
            /\ UNCHANGED count_position
       [] OTHER ->
            \E a \in Axes :
              /\ prod.at = SetStage[a]
              /\ count_position' = [count_position EXCEPT ![a] = prod.target[a]]
              /\ prod' = [prod EXCEPT !.at = IF a = NUM_AXIS THEN "ssp_end"
                                                             ELSE SetStage[a + 1]]
              /\ UNCHANGED critical

CallStSynchronize ==
  /\ prod.at = "idle"
  /\ ncalls < MaxCalls
  /\ "st_synchronize" \in scn.calls
  /\ prod' = [IdleProd EXCEPT !.fn = "st_synchronize", !.at = "sync"]
  /\ ncalls' = ncalls + 1
  /\ op' = "st_synchronize"
  /\ UNCHANGED <<planner_vars, stepper_vars, stepper_irq, critical, scn, endstop_vars, ledger, pending, tick>>

\* while (blocks_queued()) idle();
st_synchronize ==
  /\ prod.at = "sync"
  /\ ~blocks_queued
  /\ prod' = IdleProd
  /\ op' = "st_synchronize"
  /\ UNCHANGED <<planner_vars, stepper_vars, stepper_irq, critical, ncalls, scn, endstop_vars, ledger, pending, tick>>

CallQuickStop ==
  /\ prod.at = "idle"
  /\ ncalls < MaxCalls
  /\ "quickStop" \in scn.calls
  /\ prod' = [IdleProd EXCEPT !.fn = "quickStop", !.at = "qs_counter"]
  /\ ncalls' = ncalls + 1
  /\ op' = "quickStop"
  /\ UNCHANGED <<planner_vars, stepper_vars, stepper_irq, critical, scn, endstop_vars, ledger, pending, tick>>

\* fault: quickStop leaves the stepper interrupt enabled
DISABLE_STEPPER_DRIVER_INTERRUPT_skipped == stepper_irq

\* TIMSK1.OCIE1A after DISABLE_STEPPER_DRIVER_INTERRUPT()
DISABLE_STEPPER_DRIVER_INTERRUPT == FALSE

\* fault: quickStop leaves the stepper interrupt disabled
ENABLE_STEPPER_DRIVER_INTERRUPT_skipped == stepper_irq

\* TIMSK1.OCIE1A after ENABLE_STEPPER_DRIVER_INTERRUPT()
ENABLE_STEPPER_DRIVER_INTERRUPT == TRUE

quickStop ==
  /\ prod.at \in {"qs_counter", "qs_disable", "qs_discard", "qs_null", "qs_enable"}
  /\ op' = "quickStop"
  /\ UNCHANGED <<block_buffer, block_buffer_head, position, previous_speed,
                 previous_nominal_speed, last_extruder, counter, step_events_completed, out_bits,
                 count_direction, count_position, step_loops, step_loops_nominal,
                 acc_step_rate, acceleration_time, deceleration_time, OCR1A_nominal,
                 OCR1A, critical, ncalls, scn, endstop_vars, ledger, tick>>
  /\ pending' = IF prod.at = "qs_discard" /\ blocks_queued THEN pending - 1 ELSE pending
  /\ CASE prod.at = "qs_counter" ->
            /\ cleaning_buffer_counter' = CleaningTicks
            /\ prod' = [prod EXCEPT !.at = "qs_disable"]
            /\ UNCHANGED <<block_buffer_tail, current_block, stepper_irq>>
       [] prod.at = "qs_disable" ->
            \* DISABLE_STEPPER_DRIVER_INTERRUPT()
            /\ stepper_irq' = DISABLE_STEPPER_DRIVER_INTERRUPT
            /\ prod' = [prod EXCEPT !.at = "qs_discard"]
            /\ UNCHANGED <<block_buffer_tail, current_block, cleaning_buffer_counter>>
       [] prod.at = "qs_discard" ->
            \* while (blocks_queued()) plan_discard_current_block();
            /\ block_buffer_tail' = plan_discard_current_block
            /\ prod' = IF blocks_queued THEN [prod EXCEPT !.purged = TRUE]
                        ELSE [prod EXCEPT !.at = "qs_null"]
            /\ UNCHANGED <<current_block, stepper_irq, cleaning_buffer_counter>>
       [] prod.at = "qs_null" ->
            /\ current_block' = NULL
            /\ prod' = [prod EXCEPT !.at = "qs_enable"]
            /\ UNCHANGED <<block_buffer_tail, stepper_irq, cleaning_buffer_counter>>
       [] prod.at = "qs_enable" ->
            \* ENABLE_STEPPER_DRIVER_INTERRUPT()
            /\ stepper_irq' = ENABLE_STEPPER_DRIVER_INTERRUPT
            /\ prod' = IdleProd
            /\ UNCHANGED <<block_buffer_tail, current_block, cleaning_buffer_counter>>

----------------------------------------------------------------------------
(* The machine after plan_init() and st_init(), and its behaviours *)

\* settings of the planner that all scenarios share
Settings ==
  [ axis_steps_per_unit |-> <<4, 4, 4, 4>>,
    max_feedrate |-> <<30000, 30000, 30000, 30000>>,
    max_acceleration |-> <<3000, 3000, 3000, 3000>>,
    acceleration |-> 3000,
    retract_acceleration |-> 3000,
    travel_acceleration |-> 3000,
    max_xy_jerk |-> 20000,
    max_z_jerk |-> 40,
    max_e_jerk |-> 500,
    minimumfeedrate |-> 0,
    mintravelfeedrate |-> 0,
    volumetric_multiplier |-> 100,
    e1_steps_per_unit |-> 4,
    extruders |-> {0},
    endstops |-> {} ]

\* the calls and arguments the main loop draws from: every API call, moves along X
\* of 0 and 2 steps
RingScenario ==
  Settings @@
  [ calls |-> {"plan_buffer_line", "plan_set_position", "st_synchronize", "quickStop"},
    dests |-> { <<0, 0, 0, 0>>, <<50, 0, 0, 0>> },
    feeds |-> {10000},
    emults |-> {100},
    cold |-> {FALSE} ]

\* plan_init(), st_init() and the zero-initialised statics
PowerOn ==
  /\ block_buffer = [i \in Slots |-> ZeroBlock]
  /\ block_buffer_head = 0
  /\ block_buffer_tail = 0
  /\ position = <<0, 0, 0, 0>>
  /\ previous_speed = <<0, 0, 0, 0>>
  /\ previous_nominal_speed = 0
  /\ last_extruder = 0
  /\ current_block = NULL
  /\ counter = <<0, 0, 0, 0>>
  /\ step_events_completed = 0
  /\ out_bits = {}
  /\ count_direction = set_stepper_direction({})
  /\ count_position = <<0, 0, 0, 0>>
  /\ step_loops = 0
  /\ step_loops_nominal = 0
  /\ acc_step_rate = 0
  /\ acceleration_time = 0
  /\ deceleration_time = 0
  /\ OCR1A_nominal = 0
  /\ OCR1A = 16384
  /\ cleaning_buffer_counter = 0
  /\ check_endstops = TRUE
  /\ old_endstop_bits = {}
  /\ endstop_hit_bits = {}
  /\ endstops_trigsteps = <<0, 0, 0>>
  /\ stepper_irq = TRUE
  /\ critical = FALSE
  /\ prod = IdleProd
  /\ ncalls = 0
  /\ pending = 0
  /\ initial_position = position
  /\ retired = NoneRetired
  /\ op = "init"
  /\ tick = NoTick

Init ==
  /\ scn = RingScenario
  /\ PowerOn

Next ==
  \/ CallPlanBufferLine
  \/ plan_buffer_line
  \/ calculate_trapezoid_for_block
  \/ planner_reverse_pass
  \/ planner_forward_pass
  \/ planner_recalculate_trapezoids
  \/ st_wake_up
  \/ CallPlanSetPosition
  \/ plan_set_position
  \/ st_set_position
  \/ CallStSynchronize
  \/ st_synchronize
  \/ CallQuickStop
  \/ quickStop
  \/ ISR_Cleanup
  \/ ISR_Idle
  \/ ISR_Trace

Spec == Init /\ [][Next]_vars

----------------------------------------------------------------------------
(* Properties of the block ring *)

\* a step of the producer context (any function but the interrupt handler)
ProducerStep == op' \notin {"ISR", "init"}

\* C1: plan_buffer_line moves block_buffer_head only when the ring is not full; the
\* number of blocks appended and not yet discarded never exceeds
\* BLOCK_BUFFER_SIZE - 1 and is the occupancy the indices show; and the only slot
\* plan_buffer_line writes is the one at head, which holds no pending block.
C1_NeverAppendsWhenFull ==
  [][ /\ block_buffer_head' # block_buffer_head
          => next_block_index(block_buffer_head) # block_buffer_tail
      /\ pending' <= BLOCK_BUFFER_SIZE - 1
      /\ pending' = movesplanned'
      /\ op' = "plan_buffer_line"
          => \A i \in Slots : block_buffer'[i] # block_buffer[i]
                => i = block_buffer_head /\ i \notin Queued ]_vars

\* the producer is held in the wait loop by a full ring
C1_Witness ==
  /\ prod.at = "wait"
  /\ buffer_full(prod.next_buffer_head)
  /\ pending = BLOCK_BUFFER_SIZE - 1

\* C2: every block between tail and head, and the block the stepper has latched, has
\* had all its field groups written since the producer started to set the slot up,
\* and a queued block the stepper has not latched has busy = false.
C2_PublishedBlocksComplete ==
  /\ \A i \in Queued : /\ block_buffer[i].written = FieldGroups
                        /\ block_buffer[i].busy => i = current_block
  /\ current_block # NULL => block_buffer[current_block].written = FieldGroups

\* a tick has latched a block while plan_buffer_line is setting up the next one
C2_Witness ==
  /\ op = "ISR"
  /\ tick.latched
  /\ prod.at \in {"fill", "compute", "ct_start"}
  /\ block_buffer[block_buffer_head].written # FieldGroups

\* C3: a step of the producer context leaves every field of the block the stepper
\* has latched (busy = true) as it was.
C3_BusyBlockNotWritten ==
  [][ ProducerStep
        => \A i \in Slots : (block_buffer[i].busy /\ i = current_block)
              => block_buffer'[i] = block_buffer[i] ]_vars

\* the fields calculate_trapezoid_for_block stores
Trapezoid(b) == <<b.accelerate_until, b.decelerate_after, b.initial_rate, b.final_rate>>

\* C4: the trapezoid of a block changes only by a store of
\* calculate_trapezoid_for_block made while the block is not busy and interrupts are
\* masked, and no stepper tick falls between the test of busy and the end of the
\* critical section.
C4_TrapezoidOnlyWhenNotBusy ==
  [][ /\ \A i \in Slots : Trapezoid(block_buffer'[i]) # Trapezoid(block_buffer[i])
            => /\ op' = "calculate_trapezoid_for_block"
               /\ ~block_buffer[i].busy
               /\ critical
      /\ op' = "ISR" => prod.at \notin {"ct_test", "ct_w1", "ct_w2", "ct_end"} ]_vars

\* the busy test has refused to rewrite the trapezoid of the latched block
C4_Witness ==
  /\ prod.at = "ct_end"
  /\ ~prod.ct.write
  /\ block_buffer[prod.ct.blk].busy
  /\ prod.ct.blk = current_block

C6_TailWrittenOnlyByISR ==
  [][ block_buffer_tail' # block_buffer_tail => op' = "ISR" ]_vars

\* C6 amended: block_buffer_tail changes only in the interrupt handler and in
\* quickStop while the stepper interrupt is disabled.
C6_TailWrittenByISROrQuickStop ==
  [][ block_buffer_tail' # block_buffer_tail
        => \/ op' = "ISR"
           \/ op' = "quickStop" /\ ~stepper_irq ]_vars

\* quickStop has moved tail past the block the stepper had latched
C6_Witness ==
  /\ op = "quickStop"
  /\ prod.at = "qs_discard"
  /\ ~stepper_irq
  /\ current_block # NULL
  /\ current_block # block_buffer_tail

\* C7: right after block_buffer_head moves, head # tail.
C7_NotEmptyAfterAppend ==
  [][ block_buffer_head' # block_buffer_head
        => block_buffer_head' # block_buffer_tail' ]_vars

\* head has just moved onto the last free slot while the stepper is tracing a block
C7_Witness ==
  /\ op = "plan_buffer_line"
  /\ prod.at = "rp_start"
  /\ pending = BLOCK_BUFFER_SIZE - 1
  /\ current_block # NULL

\* C8: a tick that steps leaves its block busy; count_position changes only in
\* st_set_position or in a tick whose block is busy when the steps are made; a tick
\* latches only the block at tail of a ring with head # tail.
C8_BusyBeforeCounting ==
  [][ /\ count_position' # count_position
          => \/ op' = "st_set_position"
             \/ /\ op' = "ISR"
                /\ tick'.kind = "step"
                /\ block_buffer'[tick'.block].busy
                /\ ~tick'.latched => block_buffer[tick'.block].busy
      /\ (op' = "ISR" /\ tick'.kind = "step" /\ tick'.latched)
          => /\ block_buffer_head # block_buffer_tail
             /\ tick'.block = block_buffer_tail
             /\ block_buffer'[tick'.block].busy ]_vars

\* a tick has latched a block and stepped it
C8_Witness ==
  /\ op = "ISR"
  /\ tick.kind = "step"
  /\ tick.latched
  /\ count_position # tick.from
  /\ block_buffer[tick.block].busy

----------------------------------------------------------------------------
(* The step loop on one block *)

\* Rate profiles of the traced block: cruising at a step rate that calc_timer serves
\* with 1, 2 and 4 steps per tick and at one above MAX_STEP_FREQUENCY, and
\* accelerating through all three.
StepProfiles ==
  { [nominal_rate |-> 1200, initial_rate |-> 1200, acceleration_rate |-> 0, ramp |-> FALSE],
    [nominal_rate |-> 50000, initial_rate |-> 50000, acceleration_rate |-> 0, ramp |-> FALSE],
    [nominal_rate |-> 12000, initial_rate |-> 12000, acceleration_rate |-> 0, ramp |-> FALSE],
    [nominal_rate |-> 24000, initial_rate |-> 24000, acceleration_rate |-> 0, ramp |-> FALSE],
    [nominal_rate |-> 24000, initial_rate |-> 120, acceleration_rate |-> 12000000,
     ramp |-> TRUE] }

\* a block as plan_buffer_line and calculate_trapezoid_for_block leave it, for the step
\* counts, direction bits and rate profile given
StepBlock(steps, dirs, prof) ==
  [ZeroBlock EXCEPT !.steps = steps,
                    !.step_event_count = StepEventCount(steps),
                    !.direction_bits = dirs,
                    !.nominal_rate = prof.nominal_rate,
                    !.initial_rate = prof.initial_rate,
                    !.final_rate = prof.initial_rate,
                    !.acceleration_rate = prof.acceleration_rate,
                    !.accelerate_until = IF prof.ramp THEN StepEventCount(steps) ELSE 0,
                    !.decelerate_after = StepEventCount(steps),
                    !.written = FieldGroups]

\* direction bits of the traced block: every axis forward, every axis reversed, and
\* two mixed settings
StepDirections == { {}, Axes, {X_AXIS, Z_AXIS}, {Y_AXIS, E_AXIS} }

StepScenario ==
  Settings @@ [ calls |-> {}, dests |-> {}, feeds |-> {}, emults |-> {}, cold |-> {} ]

\* one block queued in slot 0 of an otherwise idle machine
InitStep ==
  /\ scn = StepScenario
  /\ \E steps \in [Axes -> 0..MaxSteps], dirs \in StepDirections, prof \in StepProfiles :
       /\ StepEventCount(steps) > DROP_SEGMENTS
       /\ block_buffer = [i \in Slots |-> IF i = 0 THEN StepBlock(steps, dirs, prof)
                                                   ELSE ZeroBlock]
  /\ block_buffer_head = 1
  /\ block_buffer_tail = 0
  /\ pending = 1
  /\ position = <<0, 0, 0, 0>>
  /\ initial_position = <<0, 0, 0, 0>>
  /\ retired = NoneRetired
  /\ previous_speed = <<0, 0, 0, 0>>
  /\ previous_nominal_speed = 0
  /\ last_extruder = 0
  /\ current_block = NULL
  /\ counter = <<0, 0, 0, 0>>
  /\ step_events_completed = 0
  /\ out_bits = {}
  /\ count_direction = set_stepper_direction({})
  /\ count_position = <<0, 0, 0, 0>>
  /\ step_loops = 0
  /\ step_loops_nominal = 0
  /\ acc_step_rate = 0
  /\ acceleration_time = 0
  /\ deceleration_time = 0
  /\ OCR1A_nominal = 0
  /\ OCR1A = 16384
  /\ cleaning_buffer_counter = 0
  /\ check_endstops = TRUE
  /\ old_endstop_bits = {}
  /\ endstop_hit_bits = {}
  /\ endstops_trigsteps = <<0, 0, 0>>
  /\ stepper_irq = TRUE
  /\ critical = FALSE
  /\ prod = IdleProd
  /\ ncalls = 0
  /\ op = "init"
  /\ tick = NoTick

NextStep ==
  \/ ISR_Trace
  \/ ISR_Idle

SpecStep == InitStep /\ [][NextStep]_vars

\* the signed step count of axis a of block b
SignedSteps(b, a) == IF a \in b.direction_bits THEN -b.steps[a] ELSE b.steps[a]

\* C9: a tick makes 1, 2 or 4 passes of the step loop at most; in each pass the axis
\* whose steps equal step_event_count steps once in its direction; and when the tick
\* retires the block, count_position has moved from its value at the latch by exactly
\* +steps[axis] (direction bit clear) or -steps[axis] (bit set) on each axis.
C9_BresenhamClosure ==
  [][ (op' = "ISR" /\ tick'.kind = "step")
        => LET b == block_buffer'[tick'.block]
           IN  /\ tick'.loops \in {1, 2, 4}
               /\ tick'.iters \in 1..tick'.loops
               /\ \A a \in Axes :
                     /\ b.steps[a] = b.step_event_count
                          => count_position'[a] - count_position[a]
                               = (IF a \in b.direction_bits THEN -1 ELSE 1) * tick'.iters
                     /\ tick'.retired
                          => count_position'[a] - tick'.from[a] = SignedSteps(b, a) ]_vars

\* a block with a minor axis and a reversed axis has been retired by a tick that made
\* four passes
C9_Witness ==
  /\ op = "ISR"
  /\ tick.kind = "step"
  /\ tick.retired
  /\ tick.iters = 4
  /\ \E a, c \in Axes :
       /\ block_buffer[tick.block].steps[a] \in 1..(block_buffer[tick.block].step_event_count - 1)
       /\ c \in block_buffer[tick.block].direction_bits
       /\ block_buffer[tick.block].steps[c] > 0
       /\ count_position[c] < 0

----------------------------------------------------------------------------
(* Round trip: plan_set_position on an empty ring, moves, drain *)

\* moves along X and E at the nominal extrusion multiplier, hot nozzle, from a
\* position p of plan_set_position drawn from `starts'
TripPlain ==
  Settings @@
  [ calls |-> {"plan_buffer_line"},
    starts |-> { <<25, 0, 0, 50>> },
    dests |-> { <<0, 0, 0, 0>>, <<50, 0, 0, 100>> },
    feeds |-> {10000},
    emults |-> {100},
    cold |-> {FALSE} ]

\* the same moves with the extrusion multiplier at 50% (M221)
TripScaled == [TripPlain EXCEPT !.emults = {50}]

\* the same moves with the nozzle below extrude_min_temp
TripCold == [TripPlain EXCEPT !.cold = {TRUE}]

\* the machine right after plan_set_position(p) on an empty ring
InitTrip ==
  /\ scn \in {TripPlain, TripScaled, TripCold}
  /\ \E p \in scn.starts :
       /\ position = [a \in Axes |-> RoundDiv(p[a] * scn.axis_steps_per_unit[a], 100)]
       /\ count_position = position
  /\ block_buffer = [i \in Slots |-> ZeroBlock]
  /\ block_buffer_head = 0
  /\ block_buffer_tail = 0
  /\ pending = 0
  /\ initial_position = position
  /\ retired = NoneRetired
  /\ previous_speed = <<0, 0, 0, 0>>
  /\ previous_nominal_speed = 0
  /\ last_extruder = 0
  /\ current_block = NULL
  /\ counter = <<0, 0, 0, 0>>
  /\ step_events_completed = 0
  /\ out_bits = {}
  /\ count_direction = set_stepper_direction({})
  /\ step_loops = 0
  /\ step_loops_nominal = 0
  /\ acc_step_rate = 0
  /\ acceleration_time = 0
  /\ deceleration_time = 0
  /\ OCR1A_nominal = 0
  /\ OCR1A = 16384
  /\ cleaning_buffer_counter = 0
  /\ check_endstops = TRUE
  /\ old_endstop_bits = {}
  /\ endstop_hit_bits = {}
  /\ endstops_trigsteps = <<0, 0, 0>>
  /\ stepper_irq = TRUE
  /\ critical = FALSE
  /\ prod = IdleProd
  /\ ncalls = 0
  /\ op = "init"
  /\ tick = NoTick

NextTrip ==
  \/ CallPlanBufferLine
  \/ plan_buffer_line
  \/ calculate_trapezoid_for_block
  \/ planner_reverse_pass
  \/ planner_forward_pass
  \/ planner_recalculate_trapezoids
  \/ st_wake_up
  \/ ISR_Idle
  \/ ISR_Trace

SpecTrip == InitTrip /\ [][NextTrip]_vars

\* no call in progress, ring empty, no block latched
Drained ==
  /\ prod.at = "idle"
  /\ ~blocks_queued
  /\ current_block = NULL

\* count_position[a] is within one step of position[a]
WithinOneStep(a) == Abs(count_position[a] - position[a]) <= 1

----------------------------------------------------------------------------
(* Sums over the retired blocks *)

\* every move was planned with E unscaled and not suppressed
PlainExtrusion ==
  scn.emults = {100} /\ scn.cold = {FALSE} /\ volumetric_multiplier = 100

----------------------------------------------------------------------------
(* The planner's numbers: moves at several feed rates under three settings,  *)
(* planned back to back before the stepper's next tick                       *)

\* the settings of the spec's boundary scenarios: 80 steps/mm, 300 mm/s, 1000 mm/s^2,
\* max_xy_jerk 20 mm/s
PlanSettings ==
  [ axis_steps_per_unit |-> <<80, 80, 80, 80>>,
    max_feedrate |-> <<30000, 30000, 30000, 30000>>,
    max_acceleration |-> <<1000, 1000, 1000, 1000>>,
    acceleration |-> 1000,
    retract_acceleration |-> 1000,
    travel_acceleration |-> 1000,
    max_xy_jerk |-> 2000,
    max_z_jerk |-> 40,
    max_e_jerk |-> 500,
    minimumfeedrate |-> 0,
    mintravelfeedrate |-> 0,
    volumetric_multiplier |-> 100,
    e1_steps_per_unit |-> 80,
    extruders |-> {0},
    endstops |-> {} ]

\* moves of 4 steps back and forth along X at 5 mm/s and at 100 mm/s
PlanJunction ==
  PlanSettings @@
  [ calls |-> {"plan_buffer_line"},
    dests |-> { <<0, 0, 0, 0>>, <<5, 0, 0, 0>> },
    feeds |-> {500, 10000},
    emults |-> {100},
    cold |-> {FALSE} ]

\* the same moves at 1 mm/s, 80 steps/s
PlanSlow == [PlanJunction EXCEPT !.feeds = {100}]

\* a fine-pitch X axis, 400 steps/mm allowed 120 mm/s, moved at 110 mm/s
PlanFast ==
  [PlanJunction EXCEPT !.axis_steps_per_unit = <<400, 80, 80, 80>>,
                       !.max_feedrate = <<12000, 30000, 30000, 30000>>,
                       !.max_acceleration = <<100, 100, 100, 100>>,
                       !.acceleration = 100,
                       !.retract_acceleration = 100,
                       !.travel_acceleration = 100,
                       !.dests = { <<0, 0, 0, 0>>, <<1, 0, 0, 0>> },
                       !.feeds = {11000}]

\* moves along X to 10 mm and to 20 mm at 3600 mm/min
PlanTenMillimetres ==
  [PlanJunction EXCEPT !.dests = { <<1000, 0, 0, 0>>, <<2000, 0, 0, 0>> },
                       !.feeds = {6000}]

\* moves between 0, 0.05 mm and 0.25 mm on X at 5 mm/s and at 100 mm/s, with every
\* acceleration set to 500 mm/s^2
PlanGentle ==
  [PlanJunction EXCEPT !.dests = { <<0, 0, 0, 0>>, <<5, 0, 0, 0>>, <<25, 0, 0, 0>> },
                       !.max_acceleration = <<500, 500, 500, 500>>,
                       !.acceleration = 500,
                       !.retract_acceleration = 500,
                       !.travel_acceleration = 500]

\* moves between (0, 0), (0.05, 0) and (0.05, 0.05) mm at 100 mm/s on axes allowed
\* 500 mm/s^2 (X) and 300 mm/s^2 (Y), below the travel acceleration of 1000 mm/s^2
PlanLimited ==
  [PlanJunction EXCEPT !.dests = { <<0, 0, 0, 0>>, <<5, 0, 0, 0>>, <<5, 5, 0, 0>> },
                       !.feeds = {10000},
                       !.max_acceleration = <<500, 300, 1000, 1000>>]

InitPlan ==
  /\ scn \in {PlanJunction, PlanSlow, PlanFast, PlanTenMillimetres, PlanGentle,
              PlanLimited}
  /\ PowerOn

NextPlan ==
  \/ CallPlanBufferLine
  \/ plan_buffer_line
  \/ calculate_trapezoid_for_block
  \/ planner_reverse_pass
  \/ planner_forward_pass
  \/ planner_recalculate_trapezoids
  \/ st_wake_up

SpecPlan == InitPlan /\ [][NextPlan]_vars

\* C12: every queued block has 0 <= accelerate_until <= decelerate_after <=
\* step_event_count.
C12_TrapezoidOrdered ==
  \A i \in Queued :
     /\ 0 <= block_buffer[i].accelerate_until
     /\ block_buffer[i].accelerate_until <= block_buffer[i].decelerate_after
     /\ block_buffer[i].decelerate_after <= block_buffer[i].step_event_count

\* C13: every queued block has 120 <= initial_rate <= nominal_rate and
\* 120 <= final_rate <= nominal_rate.
C13_RatesWithinNominal ==
  \A i \in Queued :
     /\ MIN_RATE <= block_buffer[i].initial_rate
     /\ block_buffer[i].initial_rate <= block_buffer[i].nominal_rate
     /\ MIN_RATE <= block_buffer[i].final_rate
     /\ block_buffer[i].final_rate <= block_buffer[i].nominal_rate

\* C14: every queued block has nominal_rate <= MAX_STEP_FREQUENCY.
C14_NominalRateBounded ==
  \A i \in Queued : block_buffer[i].nominal_rate <= MAX_STEP_FREQUENCY

\* C15: every queued block has entry_speed <= max_entry_speed <= nominal_speed, and
\* max_entry_speed <= the nominal_speed of the block appended just before it (the
\* block in the slot before it, once that slot has been filled).
C15_EntrySpeedBounded ==
  \A i \in Queued :
     /\ block_buffer[i].entry_speed <= block_buffer[i].max_entry_speed
     /\ block_buffer[i].max_entry_speed <= block_buffer[i].nominal_speed
     /\ block_buffer[prev_block_index(i)].written = FieldGroups
          => block_buffer[i].max_entry_speed
               <= block_buffer[prev_block_index(i)].nominal_speed

----------------------------------------------------------------------------
(* quickStop and the cleanup ticks, under Spec *)

\* C16: quickStop stores the cleanup count; once it has disabled the stepper
\* interrupt no tick runs until it returns; each pass of its loop on a non-empty ring
\* takes one block off, so at most BLOCK_BUFFER_SIZE - 1 passes empty it; it can
\* always take its next step, whatever the stepper has done to the latched block; and
\* when it returns head = tail, current_block is NULL, the interrupt is enabled and
\* the cleanup count is what the ticks before the disable left of it.
C16_QuickStopPost ==
  [][ /\ prod.fn = "quickStop" => ENABLED quickStop
      /\ (op' = "quickStop" /\ prod.at = "qs_counter")
           => cleaning_buffer_counter' = CleaningTicks
      /\ op' = "ISR" => prod.at \notin {"qs_discard", "qs_null", "qs_enable"}
      /\ (op' = "quickStop" /\ prod.at = "qs_discard" /\ blocks_queued)
           => /\ movesplanned' = movesplanned - 1
              /\ movesplanned <= BLOCK_BUFFER_SIZE - 1
      /\ (op' = "quickStop" /\ prod.at = "qs_enable")
           => /\ prod' = IdleProd
              /\ block_buffer_head' = block_buffer_tail'
              /\ current_block' = NULL
              /\ stepper_irq'
              /\ cleaning_buffer_counter' <= CleaningTicks
              /\ cleaning_buffer_counter' = cleaning_buffer_counter ]_vars

\* quickStop has returned after it found a block latched and half traced
C16_Witness ==
  /\ op = "quickStop"
  /\ prod.at = "idle"
  /\ block_buffer_head = block_buffer_tail
  /\ current_block = NULL
  /\ stepper_irq
  /\ cleaning_buffer_counter = CleaningTicks
  /\ tick.kind = "step"
  /\ ~tick.retired
  /\ step_events_completed = 1

\* C17: while cleaning_buffer_counter is not zero a tick takes the cleanup branch: it
\* lowers the count by one, leaves current_block NULL, and changes neither
\* count_position nor the Bresenham counters, step_events_completed or any block.
C17_CleanupTicksEmitNoSteps ==
  [][ (op' = "ISR" /\ cleaning_buffer_counter # 0)
        => /\ tick'.kind = "cleanup"
           /\ cleaning_buffer_counter' = cleaning_buffer_counter - 1
           /\ current_block' = NULL
           /\ UNCHANGED <<count_position, counter, step_events_completed, block_buffer,
                          out_bits, count_direction>> ]_vars

\* after quickStop has returned, a cleanup tick has thrown away a block that was
\* appended since
C17_Witness ==
  /\ op = "ISR"
  /\ tick.kind = "cleanup"
  /\ prod.at = "rp_start"
  /\ block_buffer_head = block_buffer_tail
  /\ block_buffer[prev_block_index(block_buffer_tail)].written = FieldGroups
  /\ ~block_buffer[prev_block_index(block_buffer_tail)].busy
  /\ count_position = <<0, 0, 0, 0>>

----------------------------------------------------------------------------
(* Progress: the main line keeps running and the timer keeps firing *)

\* moves along X of 0 and 2 steps, and waits for the ring to drain
LiveScenario ==
  Settings @@
  [ calls |-> {"plan_buffer_line", "st_synchronize"},
    dests |-> { <<0, 0, 0, 0>>, <<50, 0, 0, 0>> },
    feeds |-> {10000},
    emults |-> {100},
    cold |-> {FALSE} ]

InitLive ==
  /\ scn = LiveScenario
  /\ PowerOn

NextLive ==
  \/ CallPlanBufferLine
  \/ plan_buffer_line
  \/ calculate_trapezoid_for_block
  \/ planner_reverse_pass
  \/ planner_forward_pass
  \/ planner_recalculate_trapezoids
  \/ st_wake_up
  \/ CallStSynchronize
  \/ st_synchronize
  \/ ISR_Idle
  \/ ISR_Trace

\* TIMER1_COMPA_vect fires again and again while it is enabled
Tick == ISR_Cleanup \/ ISR_Idle \/ ISR_Trace

\* plan_buffer_line is at the statements that fill in the block's speeds
AtCompute == prod.fn = "plan_buffer_line" /\ prod.at = "compute"

\* the function the main line is in runs on when the handler returns (idle() returns
\* to the loop that called it)
MainLine ==
  \/ ~AtCompute /\ plan_buffer_line
  \/ calculate_trapezoid_for_block
  \/ planner_reverse_pass
  \/ planner_forward_pass
  \/ planner_recalculate_trapezoids
  \/ st_wake_up
  \/ st_synchronize

\* The timer interrupt and the main line are each treated fairly.  The step of
\* plan_buffer_line at "compute" has no guard and always leaves "compute", so its weak
\* fairness, WF_vars(AtCompute /\ plan_buffer_line), is []<>~AtCompute.
SpecLive ==
  /\ InitLive
  /\ [][NextLive]_vars
  /\ WF_vars(Tick)
  /\ WF_vars(MainLine)
  /\ []<>~AtCompute

\* C18: st_synchronize returns only when head = tail; a tick that traces a block
\* raises step_events_completed by at least one; and a call of st_synchronize
\* eventually returns.
C18_SynchronizeReturns ==
  /\ [][ /\ (op' = "st_synchronize" /\ prod.at = "sync")
             => block_buffer_head = block_buffer_tail
        /\ (op' = "ISR" /\ tick'.kind = "step")
             => step_events_completed'
                  > (IF tick'.latched THEN 0 ELSE step_events_completed) ]_vars
  /\ (prod.at = "sync") ~> (prod.at = "idle" /\ op = "st_synchronize"
                             /\ block_buffer_head = block_buffer_tail)

\* st_synchronize is waiting for a ring that holds three blocks
C18_Witness ==
  /\ prod.at = "sync"
  /\ pending = BLOCK_BUFFER_SIZE - 1
  /\ current_block = NULL

----------------------------------------------------------------------------
(* plan_buffer_line on a full ring *)

\* the ring holds BLOCK_BUFFER_SIZE - 1 blocks
RingFull == movesplanned = BLOCK_BUFFER_SIZE - 1

\* a call of plan_buffer_line is in its wait loop and the ring has no room
WaitsForRoom ==
  /\ prod.fn = "plan_buffer_line"
  /\ prod.at = "wait"
  /\ RingFull

\* the call in progress has just appended its block: the slot it filled holds the step
\* counts of its move, head is one past it and the planner position is its target
Appended ==
  /\ prod.fn = "plan_buffer_line"
  /\ prod.block # NULL
  /\ block_buffer_head = next_block_index(prod.block)
  /\ block_buffer[prod.block].steps = BlockSteps(prod.d, prod.emult)
  /\ position = PlanTarget(prod.dest)

\* plan_buffer_line leaves its wait loop only with room in the ring, and returns
\* before the end only through the drop test
WaitsAndReturns ==
  [][ /\ (op' = "plan_buffer_line" /\ prod.fn = "plan_buffer_line" /\ prod.at = "wait")
          => ~RingFull
      /\ (prod.fn = "plan_buffer_line" /\ prod'.fn # "plan_buffer_line")
          => \/ prod.at = "fill" /\ DropsMove(prod.d, prod.emult)
                  /\ UNCHANGED <<block_buffer_head, position>>
             \/ prod.at \notin {"wait", "fill", "compute", "advance", "position"}
                  /\ block_buffer_head = next_block_index(prod.block)
                  /\ position = PlanTarget(prod.dest) ]_vars

----------------------------------------------------------------------------
(* plan_buffer_line: moves too short to be planned *)

\* the step of plan_buffer_line that leaves the wait loop, for a move that will be
\* dropped
DropWaitStep ==
  /\ prod.fn = "plan_buffer_line"
  /\ prod.at = "wait"
  /\ op' = "plan_buffer_line"
  /\ DropsMove(prod'.d, prod.emult)

\* the step of plan_buffer_line that returns at the drop test
DropReturnStep ==
  /\ prod.fn = "plan_buffer_line"
  /\ prod.at = "fill"
  /\ op' = "plan_buffer_line"
  /\ DropsMove(prod.d, prod.emult)

\* the E part of the move of the call in progress is suppressed and an error is echoed
ExtrusionStopped == prod.cold /\ PlanTarget(prod.dest)[E_AXIS] # position[E_AXIS]

----------------------------------------------------------------------------
(* Endstops: update_endstops() in the stepper tick *)

\* void endstops_hit_on_purpose() { endstop_hit_bits = 0; }
endstops_hit_on_purpose ==
  /\ prod.at = "idle"
  /\ endstop_hit_bits' = {}
  /\ op' = "endstops_hit_on_purpose"
  /\ UNCHANGED <<planner_vars, stepper_vars, check_endstops, old_endstop_bits,
                 endstops_trigsteps, stepper_irq, critical, prod, ncalls, scn, pending,
                 ledger, tick>>

\* checkHitEndstops(): when a hit is recorded, report it and clear endstop_hit_bits
\* (ABORT_ON_ENDSTOP_HIT_FEATURE_ENABLED off)
checkHitEndstops ==
  /\ prod.at = "idle"
  /\ endstop_hit_bits' = IF endstop_hit_bits # {} THEN {} ELSE endstop_hit_bits
  /\ op' = "checkHitEndstops"
  /\ UNCHANGED <<planner_vars, stepper_vars, check_endstops, old_endstop_bits,
                 endstops_trigsteps, stepper_irq, critical, prod, ncalls, scn, pending,
                 ledger, tick>>

\* void enable_endstops(bool check) { check_endstops = check; }
enable_endstops ==
  /\ prod.at = "idle"
  /\ \E check \in BOOLEAN : check_endstops' = check
  /\ op' = "enable_endstops"
  /\ UNCHANGED <<planner_vars, stepper_vars, old_endstop_bits, endstop_hit_bits,
                 endstops_trigsteps, stepper_irq, critical, prod, ncalls, scn, pending,
                 ledger, tick>>

\* an X endstop at the minimum and a Y endstop at the maximum
StopScenario ==
  [StepScenario EXCEPT !.endstops = { <<X_AXIS, "MIN">>, <<Y_AXIS, "MAX">> }]

\* step counts of the blocks traced against the endstops
StopSteps == { <<2, 0, 0, 0>>, <<4, 2, 0, 0>>, <<0, 3, 0, 1>> }

\* their rate profiles: one step event per tick, and four
StopProfiles == { prof \in StepProfiles : ~prof.ramp /\ prof.nominal_rate \in {1200, 24000} }

\* two blocks queued in slots 0 and 1 of an otherwise idle machine
InitStop ==
  /\ scn = StopScenario
  /\ \E s0, s1 \in StopSteps, d0, d1 \in StepDirections, p0, p1 \in StopProfiles :
       block_buffer = [i \in Slots |-> IF i = 0 THEN StepBlock(s0, d0, p0)
                                       ELSE IF i = 1 THEN StepBlock(s1, d1, p1)
                                       ELSE ZeroBlock]
  /\ block_buffer_head = 2
  /\ block_buffer_tail = 0
  /\ pending = 2
  /\ position = <<0, 0, 0, 0>>
  /\ initial_position = <<0, 0, 0, 0>>
  /\ retired = NoneRetired
  /\ previous_speed = <<0, 0, 0, 0>>
  /\ previous_nominal_speed = 0
  /\ last_extruder = 0
  /\ current_block = NULL
  /\ counter = <<0, 0, 0, 0>>
  /\ step_events_completed = 0
  /\ out_bits = {}
  /\ count_direction = set_stepper_direction({})
  /\ count_position = <<0, 0, 0, 0>>
  /\ step_loops = 0
  /\ step_loops_nominal = 0
  /\ acc_step_rate = 0
  /\ acceleration_time = 0
  /\ deceleration_time = 0
  /\ OCR1A_nominal = 0
  /\ OCR1A = 16384
  /\ cleaning_buffer_counter = 0
  /\ check_endstops = TRUE
  /\ old_endstop_bits = {}
  /\ endstop_hit_bits = {}
  /\ endstops_trigsteps = <<0, 0, 0>>
  /\ stepper_irq = TRUE
  /\ critical = FALSE
  /\ prod = IdleProd
  /\ ncalls = 0
  /\ op = "init"
  /\ tick = NoTick

NextStop ==
  \/ ISR_Trace
  \/ ISR_Idle
  \/ endstops_hit_on_purpose
  \/ checkHitEndstops
  \/ enable_endstops

SpecStop == InitStop /\ [][NextStop]_vars

\* a stepper tick has traced a block
StepTick == op' = "ISR" /\ tick'.kind = "step"

\* the endstop towards which axis a moves was sampled active by this tick (whose
\* sample is what the tick leaves in old_endstop_bits) and by the poll before it
ActiveTwice(a) ==
  /\ EndstopTowards(a, out_bits') \in old_endstop_bits'
  /\ EndstopTowards(a, out_bits') \in old_endstop_bits

\* C21: a tick sets an axis bit in endstop_hit_bits, writes endstops_trigsteps of an
\* axis, or pushes step_events_completed past step_event_count and retires the block
\* with step events left, only if the endstop of that axis (of some axis) was sampled
\* active both in this tick and in the endstop poll immediately before it; an input
\* active for a single poll does none of these.
C21_TwoSampleDebounce ==
  [][ StepTick
        => LET b == block_buffer'[tick'.block]
           IN  /\ \A a \in EndstopAxes :
                     (a \in endstop_hit_bits' \ endstop_hit_bits
                        \/ endstops_trigsteps'[a] # endstops_trigsteps[a])
                       => ActiveTwice(a)
               /\ (step_events_completed' > b.step_event_count
                     \/ (tick'.retired /\ tick'.done < b.step_event_count))
                    => \E a \in EndstopAxes : ActiveTwice(a) ]_vars

\* the first block of four step events, taken one per tick towards the X endstop, has
\* retired after two of them: the first poll found the endstop active and triggered
\* nothing, the second triggered
C21_Witness ==
  /\ op = "ISR"
  /\ tick.kind = "step"
  /\ tick.block = 0
  /\ tick.retired
  /\ tick.loops = 1
  /\ tick.done = 2
  /\ block_buffer[0].step_event_count = 4
  /\ endstop_hit_bits = {X_AXIS}
  /\ <<X_AXIS, "MIN">> \in old_endstop_bits

\* the tick polls the endstops, and the fitted endstop towards which the block moves
\* axis a with steps[a] > 0 is active in this poll and in the one before it
Triggers(a) ==
  /\ StepTick
  /\ check_endstops
  /\ EndstopTowards(a, out_bits') \in scn.endstops
  /\ ActiveTwice(a)
  /\ block_buffer'[tick'.block].steps[a] > 0

\* C22: when an enabled endstop triggers during a block that moves towards it with
\* steps[axis] > 0, the tick records endstops_trigsteps[axis] = count_position[axis]
\* as the tick found it, sets the axis bit in endstop_hit_bits and retires the block
\* before all step_event_count step events have been executed; and endstop_hit_bits
\* loses bits only by checkHitEndstops or endstops_hit_on_purpose.
C22_TriggerRetiresEarly ==
  [][ /\ \A a \in EndstopAxes :
           Triggers(a)
             => /\ endstops_trigsteps'[a] = count_position[a]
                /\ a \in endstop_hit_bits'
                /\ tick'.retired
                /\ tick'.done < block_buffer'[tick'.block].step_event_count
      /\ ~(endstop_hit_bits \subseteq endstop_hit_bits')
           => op' \in {"checkHitEndstops", "endstops_hit_on_purpose"} ]_vars

----------------------------------------------------------------------------
(* plan_set_position and plan_set_e_position *)

\* the producer is between the first and the last store of st_set_position
InsideSetPosition == prod.at \in {SetStage[a] : a \in Axes} \cup {"ssp_end"}

\* C23: plan_set_position(x, y, z, e) stores the step value of its arguments in
\* position on all four axes and the same values in count_position, which equals
\* position on all four axes when the stores are done; it returns with
\* previous_nominal_speed and every previous_speed at zero; no step of it changes
\* head, tail or a queued block; and no stepper tick falls between the first store to
\* count_position and the end of the stores.
C23_SetPositionWhole ==
  [][ /\ op' \in {"plan_set_position", "st_set_position"}
          => /\ UNCHANGED <<block_buffer, block_buffer_head, block_buffer_tail>>
             /\ prod.at = "psp_position"
                  => position' = [a \in Axes |->
                                    RoundDiv(prod.dest[a] * scn.axis_steps_per_unit[a], 100)]
             /\ prod'.at = "ssp_end"
                  => \A a \in Axes : count_position'[a] = position'[a]
             /\ prod.at = "psp_speed"
                  => /\ prod'.at = "idle"
                     /\ previous_nominal_speed' = 0
                     /\ \A a \in Axes : previous_speed'[a] = 0
      /\ op' = "ISR" => ~InsideSetPosition ]_vars

\* plan_set_position has returned while blocks planned with an entry speed were
\* queued: both positions are at 2 steps on X
C23_Witness ==
  /\ op = "plan_set_position"
  /\ prod.at = "idle"
  /\ pending > 0
  /\ position[X_AXIS] = 2
  /\ count_position = position
  /\ \E i \in Slots : block_buffer[i].entry_speed > 0

CallPlanSetEPosition ==
  /\ prod.at = "idle"
  /\ ncalls < MaxCalls
  /\ "plan_set_e_position" \in scn.calls
  /\ \E dest \in scn.dests :
       prod' = [IdleProd EXCEPT !.fn = "plan_set_e_position", !.at = "psep_position",
                                !.dest = dest]
  /\ ncalls' = ncalls + 1
  /\ op' = "plan_set_e_position"
  /\ UNCHANGED <<planner_vars, stepper_vars, stepper_irq, critical, scn, endstop_vars,
                 ledger, pending, tick>>

\* position[E_AXIS] = lround(e * axis_steps_per_unit[E_AXIS + active_extruder]);
\* st_set_e_position(position[E_AXIS]);
plan_set_e_position ==
  /\ prod.at = "psep_position"
  /\ position' = [position EXCEPT ![E_AXIS] = PlanTarget(prod.dest)[E_AXIS]]
  /\ prod' = [prod EXCEPT !.at = "st_set_e_position", !.target = position']
  /\ last_extruder' = active_extruder
  /\ op' = "plan_set_e_position"
  /\ UNCHANGED <<block_buffer, block_buffer_head, block_buffer_tail, previous_speed,
                 previous_nominal_speed, stepper_vars, stepper_irq, critical, ncalls, scn,
                 endstop_vars, ledger, pending, tick>>

\* fault: the E value is stored on every axis
StoreOnAllAxes(cp, e) == [a \in Axes |-> e]

\* count_position[E_AXIS] = e
StoreE(cp, e) == [cp EXCEPT ![E_AXIS] = e]

\* st_set_e_position(e): CRITICAL_SECTION_START, the store, CRITICAL_SECTION_END
st_set_e_position ==
  /\ prod.at \in {"st_set_e_position", "ssep_e", "ssep_end"}
  /\ op' = "st_set_e_position"
  /\ UNCHANGED <<planner_vars, current_block, counter, step_events_completed, out_bits,
                 count_direction, step_loops, step_loops_nominal, acc_step_rate,
                 acceleration_time, deceleration_time, OCR1A_nominal, OCR1A,
                 cleaning_buffer_counter, stepper_irq, ncalls, scn, endstop_vars, ledger,
                 pending, tick>>
  /\ CASE prod.at = "st_set_e_position" ->
            /\ critical' = TRUE
            /\ prod' = [prod EXCEPT !.at = "ssep_e"]
            /\ UNCHANGED count_position
       [] prod.at = "ssep_e" ->
            /\ count_position' = StoreE(count_position, prod.target[E_AXIS])
            /\ prod' = [prod EXCEPT !.at = "ssep_end"]
            /\ UNCHANGED critical
       [] prod.at = "ssep_end" ->
            /\ critical' = FALSE
            /\ prod' = IdleProd
            /\ UNCHANGED count_position

\* moves of 2 steps on X with 4 steps of filament, and E positions of 0 and 1 mm
EScenario ==
  Settings @@
  [ calls |-> {"plan_buffer_line", "plan_set_e_position"},
    dests |-> { <<0, 0, 0, 0>>, <<50, 0, 0, 100>> },
    feeds |-> {10000},
    emults |-> {100},
    cold |-> {FALSE} ]

InitE ==
  /\ scn = EScenario
  /\ PowerOn

NextE ==
  \/ CallPlanBufferLine
  \/ plan_buffer_line
  \/ calculate_trapezoid_for_block
  \/ planner_reverse_pass
  \/ planner_forward_pass
  \/ planner_recalculate_trapezoids
  \/ st_wake_up
  \/ CallPlanSetEPosition
  \/ plan_set_e_position
  \/ st_set_e_position
  \/ ISR_Idle
  \/ ISR_Trace

SpecE == InitE /\ [][NextE]_vars

----------------------------------------------------------------------------
(* planner_recalculate as a whole, on a ring that holds enough blocks for the *)
(* reverse pass to reach some                                                 *)

LookaheadSize == 2^LookaheadBits

\* while (block_index != tail) { block_index = prev_block_index(block_index); ... }
RECURSIVE ReverseLoop(_, _, _, _)
ReverseLoop(bb, block_index, tail, w) ==
  IF block_index = tail THEN bb
  ELSE LET bi == (block_index - 1) % LookaheadSize
       IN  ReverseLoop(planner_reverse_pass_kernel(bb, bi, w[1], w[2]), bi, tail,
                       <<bi, w[1], w[2]>>)

\* planner_reverse_pass()
ReversePass(bb, head, tail) ==
  IF (head - tail + LookaheadSize) % LookaheadSize > 3
    THEN ReverseLoop(bb, (head - 3) % LookaheadSize, tail, <<NULL, NULL, NULL>>)
    ELSE bb

\* planner_forward_pass(): the loop and the call after it
RECURSIVE ForwardLoop(_, _, _, _)
ForwardLoop(bb, block_index, head, w) ==
  IF block_index = head THEN planner_forward_pass_kernel(bb, w[2], w[3], NULL)
  ELSE ForwardLoop(planner_forward_pass_kernel(bb, w[2], w[3], block_index),
                   (block_index + 1) % LookaheadSize, head, <<w[2], w[3], block_index>>)

\* fault: the ramp lengths are added to the stored ones
StoreTrapezoidAdded(b, entry_n, exit_n, factor_d, clear) ==
  LET t == TrapezoidValues(b, entry_n, exit_n, factor_d)
  IN  [b EXCEPT !.accelerate_until = (@ + t.accelerate_steps) % (b.step_event_count + 1),
                !.recalculate_flag = FALSE]

\* calculate_trapezoid_for_block(b, entry_n / factor_d, exit_n / factor_d) and, when
\* clear is set, the recalculate_flag = false that follows the call
StoreTrapezoid(b, entry_n, exit_n, factor_d, clear) ==
  LET t == TrapezoidValues(b, entry_n, exit_n, factor_d)
      c == IF block_not_busy(b)
             THEN [b EXCEPT !.accelerate_until = t.accelerate_steps,
                            !.decelerate_after = t.accelerate_steps + t.plateau_steps,
                            !.initial_rate = t.initial_rate,
                            !.final_rate = t.final_rate,
                            !.written = @ \cup {"trap"}]
             ELSE b
  IN  IF clear THEN [c EXCEPT !.recalculate_flag = FALSE] ELSE c

\* planner_recalculate_trapezoids()
RECURSIVE TrapezoidLoop(_, _, _, _)
TrapezoidLoop(bb, block_index, head, next) ==
  IF block_index = head
    THEN IF next = NULL THEN bb
         ELSE [bb EXCEPT ![next] = StoreTrapezoid(bb[next], bb[next].entry_speed,
                                                  MINIMUM_PLANNER_SPEED,
                                                  bb[next].nominal_speed, TRUE)]
  ELSE TrapezoidLoop(
         IF next # NULL /\ (bb[next].recalculate_flag \/ bb[block_index].recalculate_flag)
           THEN [bb EXCEPT ![next] = StoreTrapezoid(bb[next], bb[next].entry_speed,
                                                    bb[block_index].entry_speed,
                                                    bb[next].nominal_speed, TRUE)]
           ELSE bb,
         (block_index + 1) % LookaheadSize, head, block_index)

\* planner_recalculate()
planner_recalculate(bb, head, tail) ==
  TrapezoidLoop(ForwardLoop(ReversePass(bb, head, tail), tail, head, <<NULL, NULL, NULL>>),
                tail, head, NULL)

\* moves of 1 mm forth and back along X from where the last one ended, at 100 mm/s and
\* at 20 mm/s
LookaheadScenario ==
  PlanSettings @@
  [ calls |-> {"plan_buffer_line"},
    dests |-> { <<100, 0, 0, 0>>, <<-100, 0, 0, 0>> },
    feeds |-> {10000, 2000},
    emults |-> {100},
    cold |-> {FALSE} ]

\* a whole call of plan_buffer_line with no tick during it: the block is filled in
\* at head, head and position advance, planner_recalculate runs
AppendMove ==
  /\ (block_buffer_head + 1) % LookaheadSize # block_buffer_tail
  /\ \E by \in scn.dests, feed \in scn.feeds :
     \E dest \in {[a \in Axes |-> (position[a] * 100) \div axis_steps_per_unit[a] + by[a]]} :
     \E d \in {PlanDeltas(dest, FALSE)} :
     \E steps \in {BlockSteps(d, 100)} :
       /\ StepEventCount(steps) > DROP_SEGMENTS
       /\ \E r \in {PlanBlock([block_buffer[block_buffer_head] EXCEPT
                                 !.busy = FALSE, !.steps = steps,
                                 !.step_event_count = StepEventCount(steps),
                                 !.written = {"basic"}],
                              d, feed, 100,
                              (block_buffer_head - block_buffer_tail + LookaheadSize)
                                 % LookaheadSize)} :
          \E head \in {(block_buffer_head + 1) % LookaheadSize} :
            /\ block_buffer' =
                 planner_recalculate(
                   [block_buffer EXCEPT ![block_buffer_head] =
                      StoreTrapezoid(r.block, r.block.entry_speed, r.safe_speed,
                                     r.block.nominal_speed, FALSE)],
                   head, block_buffer_tail)
            /\ block_buffer_head' = head
            /\ position' = PlanTarget(dest)
            /\ previous_speed' = r.current_speed
            /\ previous_nominal_speed' = r.block.nominal_speed
  /\ pending' = pending + 1
  /\ ncalls' = ncalls + 1
  /\ op' = "plan_buffer_line"
  /\ UNCHANGED <<block_buffer_tail, last_extruder, stepper_vars, endstop_vars,
                 stepper_irq, critical, prod, scn, ledger, tick>>

\* a tick has latched the block at tail: current_block->busy = true
LatchTail ==
  /\ block_buffer_head # block_buffer_tail
  /\ ~block_buffer[block_buffer_tail].busy
  /\ block_buffer' = LatchBusy(block_buffer, block_buffer_tail)
  /\ op' = "ISR"
  /\ UNCHANGED <<block_buffer_head, block_buffer_tail, position, previous_speed,
                 previous_nominal_speed, last_extruder, stepper_vars, endstop_vars, stepper_irq, critical,
                 prod, ncalls, scn, pending, ledger, tick>>

\* planner_recalculate() is run once more
RunAgain ==
  /\ block_buffer_head # block_buffer_tail
  /\ block_buffer' = planner_recalculate(block_buffer, block_buffer_head, block_buffer_tail)
  /\ op' = "planner_recalculate"
  /\ UNCHANGED <<block_buffer_head, block_buffer_tail, position, previous_speed,
                 previous_nominal_speed, last_extruder, stepper_vars, endstop_vars, stepper_irq, critical,
                 prod, ncalls, scn, pending, ledger, tick>>

\* an empty ring at rest; the indices start where the fourth block wraps
InitLookahead ==
  /\ scn = LookaheadScenario
  /\ block_buffer = [i \in 0..(LookaheadSize - 1) |-> ZeroBlock]
  /\ block_buffer_head = LookaheadSize - 3
  /\ block_buffer_tail = block_buffer_head
  /\ position = <<0, 0, 0, 0>>
  /\ previous_speed = <<0, 0, 0, 0>>
  /\ previous_nominal_speed = 0
  /\ last_extruder = 0
  /\ current_block = NULL
  /\ counter = <<0, 0, 0, 0>>
  /\ step_events_completed = 0
  /\ out_bits = {}
  /\ count_direction = set_stepper_direction({})
  /\ count_position = <<0, 0, 0, 0>>
  /\ step_loops = 0
  /\ step_loops_nominal = 0
  /\ acc_step_rate = 0
  /\ acceleration_time = 0
  /\ deceleration_time = 0
  /\ OCR1A_nominal = 0
  /\ OCR1A = 16384
  /\ cleaning_buffer_counter = 0
  /\ check_endstops = TRUE
  /\ old_endstop_bits = {}
  /\ endstop_hit_bits = {}
  /\ endstops_trigsteps = <<0, 0, 0>>
  /\ stepper_irq = TRUE
  /\ critical = FALSE
  /\ prod = IdleProd
  /\ ncalls = 0
  /\ pending = 0
  /\ initial_position = position
  /\ retired = NoneRetired
  /\ op = "init"
  /\ tick = NoTick

NextLookahead ==
  \/ AppendMove
  \/ LatchTail
  \/ RunAgain

SpecLookahead == InitLookahead /\ [][NextLookahead]_vars

\* C25: with no tick and no append in between, a second run of planner_recalculate
\* (reverse pass, forward pass, trapezoid pass) leaves every field of every block of
\* the ring as the run before left it, for rings of 1 to BLOCK_BUFFER_SIZE - 1 blocks.
C25_RecalculateIdempotent ==
  [][ op' = "planner_recalculate" /\ op \in {"plan_buffer_line", "planner_recalculate"}
        => block_buffer' = block_buffer ]_vars

\* the second run has ended on a full ring whose tail block is latched; its reverse
\* pass raised the entry speed of a block and its forward pass brought it back
C25_Witness ==
  /\ op = "planner_recalculate"
  /\ (block_buffer_head + 1) % LookaheadSize = block_buffer_tail
  /\ block_buffer[block_buffer_tail].busy
  /\ \E i \in DOMAIN block_buffer :
        ReversePass(block_buffer, block_buffer_head, block_buffer_tail)[i].entry_speed
          > block_buffer[i].entry_speed

----------------------------------------------------------------------------
(* The stated configuration: 80 steps/mm, 300 mm/s, 1000 mm/s^2, max_xy_jerk 20 mm/s *)

\* from an empty ring at rest at position 0, plan_buffer_line has been called n times
\* and has returned, and the planner stands at x steps on X
StatedCalls(n, x) ==
  /\ scn = PlanTenMillimetres
  /\ ncalls = n
  /\ prod.at = "idle"
  /\ block_buffer_tail = 0
  /\ block_buffer_head = n
  /\ position = <<x, 0, 0, 0>>

\* C26: after (10,0,0,0) and then (20,0,0,0) at 3600 mm/min, block 2 has an entry
\* speed of about 60 mm/s (within 1 mm/s) and the final_rate of block 1 is the step
\* rate of that entry speed.
C26_JunctionAtNominalSpeed ==
  (StatedCalls(2, 1600) /\ block_buffer[0].steps[X_AXIS] = 800)
    => /\ block_buffer[1].entry_speed \in 5900..6100
       /\ block_buffer[0].final_rate
            = Max(MIN_RATE, CeilDiv(block_buffer[0].nominal_rate * block_buffer[1].entry_speed,
                                    block_buffer[0].nominal_speed))

\* C27 as stated: one block with steps[X] = 800, step_event_count = 800, nominal_speed
\* 60 mm/s, nominal_rate 4800, accelerate_until <= 144 and a deceleration ramp as
\* long as the acceleration ramp.
C27_SingleMoveSymmetric ==
  StatedCalls(1, 800)
    => LET b == block_buffer[0]
       IN  /\ b.steps[X_AXIS] = 800
           /\ b.step_event_count = 800
           /\ b.nominal_speed = 6000
           /\ b.nominal_rate = 4800
           /\ b.accelerate_until <= 144
           /\ b.step_event_count - b.decelerate_after = b.accelerate_until

\* C27: appending (10,0,0,0) at 3600 mm/min to an empty ring at position 0 yields one
\* block with steps[X] = 800, step_event_count = 800, nominal_speed 60 mm/s,
\* nominal_rate 4800, an acceleration ramp of 140 step events from initial_rate 800
\* (safe_speed, 10 mm/s) and a deceleration ramp of 143 step events down to
\* final_rate 120.
C27_SingleMoveTrapezoid ==
  StatedCalls(1, 800)
    => LET b == block_buffer[0]
       IN  /\ b.steps = <<800, 0, 0, 0>>
           /\ b.step_event_count = 800
           /\ b.nominal_speed = 6000
           /\ b.nominal_rate = 4800
           /\ b.initial_rate = 800
           /\ b.final_rate = MIN_RATE
           /\ b.accelerate_until = 140
           /\ b.step_event_count - b.decelerate_after = 143

\* the single move to 10 mm has been planned
C27_Witness ==
  /\ StatedCalls(1, 800)
  /\ op = "st_wake_up"
  /\ block_buffer[0].written = FieldGroups
  /\ ~block_buffer[0].recalculate_flag

----------------------------------------------------------------------------
(* calc_timer *)

\* the number of step events per tick the claim gives for a step rate
LoopsFor(rate) ==
  IF rate > 2 * DOUBLE_STEP_FREQUENCY THEN 4
  ELSE IF rate > DOUBLE_STEP_FREQUENCY THEN 2
  ELSE 1

\* C28: calc_timer works on step_rate clamped to MAX_STEP_FREQUENCY (a rate above it
\* gets the period of MAX_STEP_FREQUENCY), leaves step_loops at 4, 2 or 1 as the
\* clamped rate is > 2 * DOUBLE_STEP_FREQUENCY, > DOUBLE_STEP_FREQUENCY or not, and
\* returns at least 100; once set, step_loops stays in {1, 2, 4}.  The latch calls
\* calc_timer(nominal_rate) into OCR1A_nominal and step_loops_nominal and
\* calc_timer(initial_rate) into acceleration_time and step_loops.
C28_CalcTimer ==
  [][ /\ (StepTick /\ tick'.latched)
          => LET b == block_buffer'[tick'.block]
                 nominal == Min(b.nominal_rate, MAX_STEP_FREQUENCY)
             IN  /\ step_loops_nominal' = LoopsFor(nominal)
                 /\ tick'.loops = LoopsFor(Min(b.initial_rate, MAX_STEP_FREQUENCY))
                 /\ OCR1A_nominal' >= 100
                 /\ b.nominal_rate > MAX_STEP_FREQUENCY
                      => OCR1A_nominal' = TIMER_RATE \div (MAX_STEP_FREQUENCY \div 4)
      /\ StepTick => /\ step_loops' \in {1, 2, 4}
                     /\ OCR1A' >= 100
      /\ step_loops \in {1, 2, 4} => step_loops' \in {1, 2, 4} ]_vars

\* a block whose nominal_rate is above MAX_STEP_FREQUENCY has been latched and is
\* stepped four times per tick
C28_Witness ==
  /\ op = "ISR"
  /\ tick.kind = "step"
  /\ tick.latched
  /\ block_buffer[tick.block].nominal_rate > MAX_STEP_FREQUENCY
  /\ step_loops = 4
  /\ tick.iters = 4

----------------------------------------------------------------------------
(* quickStop and the two positions, under Spec *)

\* C29: when quickStop returns after it has discarded at least one block, queued or
\* partially executed, the planner's position and the stepper's count_position
\* agree on the axes X, Y and Z.
C29_QuickStopResynchronizes ==
  [][ (op' = "quickStop" /\ prod.at = "qs_enable" /\ prod.purged)
        => \A a \in {X_AXIS, Y_AXIS, Z_AXIS} : position'[a] = count_position'[a] ]_vars

----------------------------------------------------------------------------
(* Rates on the two sides of a junction, under SpecLookahead *)

\* the rate calculate_trapezoid_for_block derives from a speed for block b
RateAt(b, speed) == Max(CeilDiv(b.nominal_rate * speed, b.nominal_speed), MIN_RATE)

\* the slots of the queued blocks that have a successor in the queue
Junctions ==
  { (block_buffer_tail + k) % LookaheadSize :
      k \in 0..(((block_buffer_head - block_buffer_tail + LookaheadSize) % LookaheadSize) - 2) }

\* C30: when a call of planner_recalculate has ended, every queued block B with a
\* successor B' has final_rate = max(120, ceil(B.nominal_rate * B'.entry_speed /
\* B.nominal_speed)) and B' has initial_rate = max(120, ceil(B'.nominal_rate *
\* B'.entry_speed / B'.nominal_speed)), also when the stepper has latched B.
C30_JunctionRatesMatch ==
  op \in {"plan_buffer_line", "planner_recalculate"}
    => \A i \in Junctions :
         LET B == block_buffer[i]
             Bn == block_buffer[(i + 1) % LookaheadSize]
         IN  /\ B.final_rate = RateAt(B, Bn.entry_speed)
             /\ Bn.initial_rate = RateAt(Bn, Bn.entry_speed)

----------------------------------------------------------------------------
(* Entry speeds on the two sides of a junction, under SpecPlan (no tick occurs) *)

\* the queued blocks that have a successor in the queue
QueuedPairs == { i \in Queued : next_block_index(i) \in Queued /\ next_block_index(i) # block_buffer_tail }

\* C31: when plan_buffer_line has returned, planner_recalculate done and no tick in
\* between, every queued block B with successor B' has
\* B'.entry_speed^2 <= B.entry_speed^2 + 2 * B.acceleration * B.millimeters and
\* B.entry_speed^2 <= B'.entry_speed^2 + 2 * B.acceleration * B.millimeters
\* (speeds in 1/100 mm/s, lengths in 1/100 mm: the factor 2 becomes 200).
C31_JunctionSpeedsReachable ==
  (prod.at = "idle" /\ op = "st_wake_up")
    => \A i \in QueuedPairs :
         LET B == block_buffer[i]
             Bn == block_buffer[next_block_index(i)]
         IN  /\ Bn.entry_speed * Bn.entry_speed
                  <= B.entry_speed * B.entry_speed + 200 * B.acceleration * B.millimeters
             /\ B.entry_speed * B.entry_speed
                  <= Bn.entry_speed * Bn.entry_speed + 200 * B.acceleration * B.millimeters

----------------------------------------------------------------------------
(* The blocks the two lookahead passes hand to their kernels, under SpecLookahead *)

\* the number of blocks in the ring
QueuedCount == (block_buffer_head - block_buffer_tail + LookaheadSize) % LookaheadSize

\* planner_reverse_pass's loop from block_index down to tail with the window w: the
\* slots it passes to planner_reverse_pass_kernel as current (block[1])
RECURSIVE ReverseCurrents(_, _, _)
ReverseCurrents(block_index, tail, w) ==
  IF block_index = tail THEN {}
  ELSE LET bi == (block_index - 1) % LookaheadSize
       IN  (IF w[1] = NULL THEN {} ELSE {w[1]})
             \cup ReverseCurrents(bi, tail, <<bi, w[1], w[2]>>)

\* planner_reverse_pass(): the slots its kernel is called on as current
ReverseVisited(head, tail) ==
  IF (head - tail + LookaheadSize) % LookaheadSize > 3
    THEN ReverseCurrents((head - 3) % LookaheadSize, tail, <<NULL, NULL, NULL>>)
    ELSE {}

\* C32: when plan_buffer_line has run planner_reverse_pass on a ring of at least three
\* blocks, the kernel was called with current on every queued block from the
\* second-newest (head - 2) down to the one after tail, and on no other.
C32_ReverseFromSecondNewest ==
  (op = "plan_buffer_line" /\ QueuedCount >= 3)
    => ReverseVisited(block_buffer_head, block_buffer_tail)
         = { (block_buffer_tail + k) % LookaheadSize : k \in 1..(QueuedCount - 2) }

\* fault: the call after the loop is left out
ForwardLastCallMissing(w) == << >>

\* planner_forward_pass_kernel(block[1], block[2], NULL) after the loop: the pair
\* (previous, current) it works on, none when previous is NULL
ForwardLastCall(w) == IF w[2] = NULL THEN << >> ELSE << <<w[2], w[3]>> >>

\* planner_forward_pass's loop from block_index up to head with the window w, and the
\* call after it: the pairs (previous, current) the kernel works on, in call order
\* (a call with previous == NULL returns at once)
RECURSIVE ForwardCalls(_, _, _)
ForwardCalls(block_index, head, w) ==
  IF block_index = head THEN ForwardLastCall(w)
  ELSE (IF w[2] = NULL THEN << >> ELSE << <<w[2], w[3]>> >>)
         \o ForwardCalls((block_index + 1) % LookaheadSize, head,
                         <<w[2], w[3], block_index>>)

\* planner_forward_pass(): the pairs its kernel works on
ForwardVisited(head, tail) == ForwardCalls(tail, head, <<NULL, NULL, NULL>>)

\* C33: a run of planner_forward_pass works on the pairs (tail, tail + 1), ...,
\* (head - 2, head - 1) in this order, each once and on no other pair, on a ring of two
\* blocks too; no pair holds a null block; and the run of planner_recalculate leaves
\* the entry_speed of the block at tail as it was.
C33_ForwardEveryPairOnce ==
  [][ op' \in {"plan_buffer_line", "planner_recalculate"}
        => LET head == block_buffer_head'
               tail == block_buffer_tail'
               n == (head - tail + LookaheadSize) % LookaheadSize
               calls == ForwardVisited(head, tail)
           IN  /\ calls = [k \in 1..(n - 1) |-> << (tail + k - 1) % LookaheadSize,
                                                   (tail + k) % LookaheadSize >>]
               /\ \A k \in 1..Len(calls) : calls[k][1] # NULL /\ calls[k][2] # NULL
               /\ block_buffer_head # block_buffer_tail
                    => block_buffer'[tail].entry_speed = block_buffer[tail].entry_speed ]_vars

\* plan_buffer_line has run the pass on a ring of exactly two blocks
C33_Witness ==
  /\ op = "plan_buffer_line"
  /\ QueuedCount = 2
  /\ ForwardVisited(block_buffer_head, block_buffer_tail)
       = << <<block_buffer_tail, (block_buffer_tail + 1) % LookaheadSize>> >>

----------------------------------------------------------------------------
(* Which endstop a tick may trigger, under SpecStop *)

\* the tick had the input of the endstop that lies in the direction axis a is driven
\* in active: the minimum one when the direction bit of a is set, else the maximum one
ActiveAhead(a) == <<a, IF a \in out_bits' THEN "MIN" ELSE "MAX">> \in tick'.pins

----------------------------------------------------------------------------
(* The acceleration of a block, under SpecPlan *)

\* the acceleration in steps/s^2 that the base acceleration selected for block b
\* gives: ceil(base * step_event_count / millimeters)
BaseAcceleration(b) ==
  LET base == IF b.steps[X_AXIS] = 0 /\ b.steps[Y_AXIS] = 0 /\ b.steps[Z_AXIS] = 0
                THEN retract_acceleration
              ELSE IF b.steps[E_AXIS] = 0 THEN travel_acceleration
              ELSE acceleration
  IN  CeilDiv(base * b.step_event_count * 100, b.millimeters)

\* C35: every queued block has acceleration_st * steps[axis] / step_event_count <=
\* axis_steps_per_sqr_second[axis] on X, Y, Z and E, and acceleration_st at most the
\* value its base acceleration (retract, travel or print) gives.
C35_AccelerationLimited ==
  \A i \in Queued :
     LET b == block_buffer[i]
     IN  /\ \A a \in Axes :
               b.acceleration_st * b.steps[a]
                 <= axis_steps_per_sqr_second[a] * b.step_event_count
         /\ b.acceleration_st <= BaseAcceleration(b)

\* a diagonal block has been queued whose acceleration the Y axis limits, below the
\* limit of the X axis and below its base acceleration
C35_Witness ==
  /\ scn = PlanLimited
  /\ \E i \in Queued :
        /\ block_buffer[i].steps[X_AXIS] = 4
        /\ block_buffer[i].steps[Y_AXIS] = 4
        /\ block_buffer[i].acceleration_st = axis_steps_per_sqr_second[Y_AXIS]
        /\ block_buffer[i].acceleration_st < axis_steps_per_sqr_second[X_AXIS]
        /\ block_buffer[i].acceleration_st < BaseAcceleration(block_buffer[i])

----------------------------------------------------------------------------
(* plan_buffer_line with a second extruder *)

\* filament moves to 1 mm and 2 mm at 10 mm/s with extruder 1, which has 8 steps/mm
\* against the 4 steps/mm of extruder 0
ToolOne ==
  [ (Settings @@ [ calls |-> {"plan_buffer_line"},
                   dests |-> { <<0, 0, 0, 100>>, <<0, 0, 0, 200>> },
                   feeds |-> {1000},
                   emults |-> {100},
                   cold |-> {FALSE} ])
      EXCEPT !.e1_steps_per_unit = 8, !.extruders = {1} ]

\* the same moves with either extruder
ToolBoth == [ToolOne EXCEPT !.extruders = {0, 1}]

InitTool ==
  /\ scn \in {ToolOne, ToolBoth}
  /\ PowerOn

SpecTool == InitTool /\ [][NextPlan]_vars

\* C36: when every call of plan_buffer_line names extruder 1 and last_extruder was 0,
\* the first call rescales position[E] by the ratio of the steps per unit, and every
\* later call leaves position[E] as the call before it left it and takes its E delta
\* from it.
C36_RescaledOncePerChange ==
  [][ (op' = "plan_buffer_line" /\ prod.at = "wait" /\ scn.extruders = {1})
        => IF ncalls = 1
             THEN position'[E_AXIS]
                    = RoundDiv(position[E_AXIS] * EStepsPerUnit(1), EStepsPerUnit(0))
             ELSE /\ position'[E_AXIS] = position[E_AXIS]
                  /\ prod'.d[E_AXIS] = prod'.target[E_AXIS] - position[E_AXIS] ]_vars

----------------------------------------------------------------------------
(* The life of a block without quickStop, under SpecLive *)

\* C37: a tick latches a block only when none is latched, and it is the block at
\* tail, not latched before; a tick retires only the latched block, which is the
\* block at tail, with step_events_completed >= step_event_count, and moves tail by
\* one slot; tail moves in no other step; and while ticks keep occurring every queued
\* block is retired.  Latching and retiring at tail only, blocks are taken in the
\* order they were appended.
C37_LatchedAndRetiredOnce ==
  /\ [][ /\ (op' = "ISR" /\ tick'.kind = "step" /\ tick'.latched)
             => /\ current_block = NULL
                /\ tick'.block = block_buffer_tail
                /\ block_buffer_head # block_buffer_tail
                /\ ~block_buffer[block_buffer_tail].busy
                /\ block_buffer'[block_buffer_tail].busy
         /\ (op' = "ISR" /\ tick'.kind = "step" /\ ~tick'.latched)
             => current_block = tick'.block
         /\ (op' = "ISR" /\ tick'.kind = "step" /\ tick'.retired)
             => /\ tick'.block = block_buffer_tail
                /\ step_events_completed' >= block_buffer[block_buffer_tail].step_event_count
                /\ current_block' = NULL
         /\ (op' = "ISR" /\ tick'.kind = "step" /\ ~tick'.retired)
             => current_block' = tick'.block
         /\ block_buffer_tail' # block_buffer_tail
             => /\ op' = "ISR" /\ tick'.kind = "step" /\ tick'.retired
                /\ block_buffer_tail' = BLOCK_MOD(block_buffer_tail + 1) ]_vars
  /\ \A i \in Slots : (i \in Queued) ~> (i \notin Queued)

\* the second block appended has been retired by a tick other than the one that
\* latched it, with a third block queued behind it
C37_Witness ==
  /\ op = "ISR"
  /\ tick.kind = "step"
  /\ tick.retired
  /\ ~tick.latched
  /\ tick.block = 1
  /\ block_buffer_tail = 2
  /\ block_buffer_head = 3

----------------------------------------------------------------------------
(* The latched block seen at the start of a tick *)

\* C38: whenever a tick can start (the stepper interrupt enabled and not masked), a
\* non-null current_block is the slot at tail of a non-empty ring and has busy set;
\* so it is never the slot at head, which plan_buffer_line fills and resets to
\* busy = false.
C38_LatchedIsBusyTail ==
  (InterruptsOn /\ current_block # NULL)
      => /\ block_buffer_head # block_buffer_tail
         /\ current_block = block_buffer_tail
         /\ block_buffer[current_block].busy
         /\ current_block # block_buffer_head

\* a block is latched and part done while plan_buffer_line has just filled the slot
\* at head, which is not the first slot of the ring
C38_Witness ==
  /\ InterruptsOn
  /\ current_block # NULL
  /\ step_events_completed > 0
  /\ op = "plan_buffer_line"
  /\ prod.at \in {"compute", "advance"}
  /\ ~block_buffer[block_buffer_head].busy
  /\ block_buffer_head # 1

----------------------------------------------------------------------------
(* The tick of an endstop trigger, under SpecStop *)

\* C39: in the tick in which an endstop triggers, the step loop still makes exactly
\* one pass after step_events_completed was forced to step_event_count: every axis
\* moves by at most one step, so count_position of the triggered axis is within one
\* step of endstops_trigsteps, and the block is retired in that tick, current_block
\* cleared and the slot out of the ring; and a tick that starts with no block
\* latched steps only a block it latches from the tail of the ring, so no later
\* tick steps the retired block.
C39_TriggerTickStepsOnce ==
  [][ /\ \A a \in EndstopAxes :
           Triggers(a)
             => /\ tick'.iters = 1
                /\ step_events_completed' = block_buffer'[tick'.block].step_event_count + 1
                /\ \A x \in Axes : /\ count_position'[x] - count_position[x] \in {-1, 0, 1}
                                   /\ (count_position'[x] # count_position[x])
                                        => block_buffer'[tick'.block].steps[x] > 0
                /\ count_position'[a] - endstops_trigsteps'[a] \in {-1, 0, 1}
                /\ tick'.retired
                /\ current_block' = NULL
                /\ tick'.block = block_buffer_tail
                /\ block_buffer_tail' = BLOCK_MOD(block_buffer_tail + 1)
                /\ block_buffer_head' = block_buffer_head
      /\ (StepTick /\ current_block = NULL)
           => /\ tick'.latched
              /\ tick'.block = block_buffer_tail
              /\ block_buffer_head # block_buffer_tail ]_vars

\* a tick with step_loops > 1 has retired a block short of its step events after a
\* single pass of the loop, and count_position of the axis that hit is one step past
\* endstops_trigsteps
C39_Witness ==
  /\ op = "ISR"
  /\ tick.kind = "step"
  /\ tick.retired
  /\ tick.iters = 1
  /\ tick.loops > 1
  /\ tick.done < block_buffer[tick.block].step_event_count
  /\ current_block = NULL
  /\ \E a \in EndstopAxes : /\ a \in endstop_hit_bits
                            /\ count_position[a] # endstops_trigsteps[a]

----------------------------------------------------------------------------
(* Blocks appended during the cleanup ticks *)

\* a cleanup tick takes a block out of the ring after quickStop has returned: every
\* block then queued was appended while cleaning_buffer_counter > 0
CleanupRemoves ==
  /\ op' = "ISR"
  /\ tick'.kind = "cleanup"
  /\ block_buffer_head # block_buffer_tail
  /\ prod.at # "qs_disable"

\* the tick leaves the block at tail unexecuted: it was never latched, the tail moves
\* past it, and neither the step counters nor the block are touched
RemovedUnexecuted ==
  /\ ~block_buffer[block_buffer_tail].busy
  /\ current_block = NULL
  /\ block_buffer_tail' = BLOCK_MOD(block_buffer_tail + 1)
  /\ block_buffer_head' = block_buffer_head
  /\ UNCHANGED <<count_position, counter, step_events_completed, block_buffer, position>>

\* the call of plan_buffer_line that appended the block at tail is still running
AppendingCall ==
  /\ prod.fn = "plan_buffer_line"
  /\ prod.block = block_buffer_tail
  /\ block_buffer_head = BLOCK_MOD(block_buffer_tail + 1)

\* C40 as stated: a block appended while cleaning_buffer_counter > 0 is taken out of
\* the ring by a cleanup tick with none of its steps executed, the tail moving past it
\* and count_position unchanged, and position is at the block's target by then.
C40_DiscardedAfterPositionAdvanced ==
  [][ /\ (op' = "ISR" /\ cleaning_buffer_counter # 0) => tick'.kind = "cleanup"
      /\ CleanupRemoves
           => /\ RemovedUnexecuted
              /\ AppendingCall => position = prod.target ]_vars

\* C40, amended: a block appended while cleaning_buffer_counter > 0 is not latched
\* while the count is non-zero, and a cleanup tick that finds it at tail takes it out
\* of the ring with none of its steps executed, the tail moving past it and
\* count_position unchanged; position is at the block's target by then unless the tick
\* comes between the move of block_buffer_head and the copy of target[] to position[],
\* and that copy is made whether or not the block is still in the ring.
C40_DiscardedUnexecuted ==
  [][ /\ (op' = "ISR" /\ cleaning_buffer_counter # 0) => tick'.kind = "cleanup"
      /\ CleanupRemoves
           => /\ RemovedUnexecuted
              /\ AppendingCall => (position = prod.target \/ prod.at = "position")
      /\ (op' = "plan_buffer_line" /\ prod.at = "position")
           => position' = prod.target ]_vars

\* the last cleanup tick has taken the block of the running call out of the ring after
\* position was set to its target, and the steppers have not moved
C40_Witness ==
  /\ op = "ISR"
  /\ tick.kind = "cleanup"
  /\ cleaning_buffer_counter = 0
  /\ prod.fn = "plan_buffer_line"
  /\ prod.at = "rp_start"
  /\ block_buffer_head = block_buffer_tail
  /\ prod.block = prev_block_index(block_buffer_tail)
  /\ ~block_buffer[prod.block].busy
  /\ position = prod.target
  /\ position # count_position

====
